---- MODULE Spec2Model ----
(***************************************************************************)
(* vmmgr: resolution of a network address and an OS identifier for every   *)
(* libvirt domain (src/src/vmmgr/libvirt.py) and matching of an osinfo     *)
(* short id for a template image (src/src/vmmgr/os.py).                    *)
(*                                                                         *)
(* Representation of Python values                                         *)
(*  - a str that the code only compares or copies is a TLA+ string;        *)
(*  - a dotted key of the guest-agent reply ("if.0.addr.1.type") is the    *)
(*    sequence of its dot-separated segments (<<"if","0","addr","1",       *)
(*    "type">>): the encoding is one-to-one, and startswith("X."),         *)
(*    endswith(".X"), partition(".") and rpartition(".") are exact on it;  *)
(*  - the path of a URI is the sequence of its "/"-separated segments;     *)
(*  - a dict is the sequence of its <<key, value>> pairs in insertion      *)
(*    order, or a function whose DOMAIN is the set of keys;                *)
(*  - None is the string None below; a missing XML attribute or dict key   *)
(*    is Absent.                                                           *)
(***************************************************************************)
EXTENDS Integers, Sequences, FiniteSets, TLC

VARIABLES
    pc,            \* position of get_domains_info: "start", "loop", "done", "error"
    listing,       \* what conn.getAllDomainStats() returned
    idx,           \* index in listing of the next domain of the for loop
    domains,       \* the list `domains` of DomainInfo built so far
    cur,           \* what the live calls of the last iteration returned
    leaseCache,    \* functools.cache of _get_dhcp_leases
    leaseSources,  \* what opened[i] answered: leaseSources[i]
    opened,        \* the URIs libvirt.open(uri) was called with, in call order
    leaseQueries,  \* number of calls of _get_dhcp_leases
    err,           \* the exception that left get_domains_info, or None
    known_osinfo,          \* argument of _match_osinfo
    virt_inspector_data,   \* argument of _match_osinfo
    file_name,             \* argument of _match_osinfo
    matching_os,           \* its result
    fn,            \* the function of libvirt.py that is called on its own
    args,          \* its arguments
    ret,           \* [done, value]: whether it returned, and what
    procs,         \* the running vmmgr processes: arguments, position, locals, exit status
    host,          \* the libvirt host: its storage pools and its domains
    cmds           \* the calls of execute_cmd so far, in order

pipelineVars ==
    <<pc, listing, idx, domains, cur, leaseCache, leaseSources, opened, leaseQueries, err>>

matchVars == <<known_osinfo, virt_inspector_data, file_name, matching_os>>

callVars == <<fn, args, ret>>

cliVars == <<procs, host, cmds>>

vars ==
    <<pc, listing, idx, domains, cur, leaseCache, leaseSources, opened, leaseQueries, err,
      known_osinfo, virt_inspector_data, file_name, matching_os,
      fn, args, ret,
      procs, host, cmds>>

None == "<None>"
Absent == "<absent>"

(***************************************************************************)
(* Bounds of the model.                                                    *)
(***************************************************************************)
MaxDomains == 2
MaxLeases == 1

(***************************************************************************)
(* Python helpers.                                                         *)
(***************************************************************************)
\* d.get(k, default) for a dict given as a sequence of <<key, value>> pairs
DictGet(d, k, default) ==
    IF \E i \in 1..Len(d) : d[i][1] = k
    THEN d[CHOOSE i \in 1..Len(d) : d[i][1] = k][2]
    ELSE default

\* d.get(k) for a dict given as a function over its keys
Get(d, k) == IF k \in DOMAIN d THEN d[k] ELSE None

\* d.get(k, default) for a dict given as a function over its keys
GetOr(d, k, default) == IF k \in DOMAIN d THEN d[k] ELSE default

EmptyDict == [k \in {} |-> None]

\* element.get(attr, default) of an XML attribute value
AttrGet(v, default) == IF v = Absent THEN default ELSE v

Last(s) == s[Len(s)]
Front(s) == SubSeq(s, 1, Len(s) - 1)

\* s.startswith(p) for sequences
StartsWith(s, p) == Len(s) >= Len(p) /\ SubSeq(s, 1, Len(p)) = p

RECURSIVE Concat(_)
Concat(ss) == IF ss = <<>> THEN <<>> ELSE Head(ss) \o Concat(Tail(ss))

\* every order in which a Python set S can be iterated
Orders(S) ==
    {o \in [1..Cardinality(S) -> S] : \A i, j \in DOMAIN o : i # j => o[i] # o[j]}

\* code points of the address-family names, for Python's str "<"
CodePoints(s) ==
    CASE s = "ipv4" -> <<105, 112, 118, 52>>
      [] s = "ipv6" -> <<105, 112, 118, 54>>
      [] OTHER -> <<>>

RECURSIVE SeqLT(_, _)
SeqLT(a, b) ==
    IF b = <<>> THEN FALSE
    ELSE IF a = <<>> THEN TRUE
    ELSE IF Head(a) # Head(b) THEN Head(a) < Head(b)
    ELSE SeqLT(Tail(a), Tail(b))

StrLT(a, b) == SeqLT(CodePoints(a), CodePoints(b))

(***************************************************************************)
(* constants.py, types.py                                                  *)
(***************************************************************************)
LIBVIRT_CONNECTION_URIS == <<"qemu:///session", "qemu:///system">>

\* DomainStateEnum(value); a value that is no member raises ValueError
DomainStateEnum(v) ==
    CASE v = 0 -> "NOSTATE"
      [] v = 1 -> "RUNNING"
      [] v = 2 -> "BLOCKED"
      [] v = 3 -> "PAUSED"
      [] v = 4 -> "SHUTDOWN"
      [] v = 5 -> "SHUTOFF"
      [] v = 6 -> "CRASHED"
      [] v = 7 -> "PMSUSPENDED"
      [] v = 8 -> "LAST"
      [] OTHER -> "ValueError"

DomainInfo(name, state, ip_address, os_id, os_version_id) ==
    [name |-> name, state |-> state, ip_address |-> ip_address,
     os_id |-> os_id, os_version_id |-> os_version_id]

\* DhcpLeaseInfo(mac=data.get("mac", ""), ip_address=data.get("ipaddr", ""), ...)
DhcpLeaseInfo(data) ==
    [mac |-> AttrGet(data.mac, ""), ip_address |-> AttrGet(data.ipaddr, "")]

(***************************************************************************)
(* LeaseCorrelator: libvirt.py lines 31-61 and 148-157.                    *)
(* What a URI answers is src = [open, enum, leases]: whether               *)
(* libvirt.open(uri) succeeds, whether listAllNetworks()/DHCPLeases()      *)
(* succeed, and the lease dicts of its networks in enumeration order.      *)
(***************************************************************************)
\* mutant: the libvirtError of libvirt.open(uri) is not caught
_get_dhcp_leases_for_connection_no_except(src) ==
    IF ~src.open THEN [exc |-> "libvirtError", leases |-> <<>>]
    ELSE IF ~src.enum THEN [exc |-> "libvirtError", leases |-> <<>>]
    ELSE [exc |-> None,
          leases |-> [i \in 1..Len(src.leases) |-> DhcpLeaseInfo(src.leases[i])]]

_get_dhcp_leases_for_connection(src) ==
    IF ~src.open THEN [exc |-> None, leases |-> <<>>]
    ELSE IF ~src.enum THEN [exc |-> "libvirtError", leases |-> <<>>]
    ELSE [exc |-> None,
          leases |-> [i \in 1..Len(src.leases) |-> DhcpLeaseInfo(src.leases[i])]]

\* itertools.chain.from_iterable(... for uri in uris), consumed by list():
\* every outcome [exc, leases, opened, answers], one for each way the URIs
\* can answer (answers[i] is what opened[i] answered)
RECURSIVE ChainLeases(_, _)
ChainLeases(uris, uri_answers) ==
    IF uris = <<>>
    THEN {[exc |-> None, leases |-> <<>>, opened |-> <<>>, answers |-> <<>>]}
    ELSE UNION {
           LET first == _get_dhcp_leases_for_connection(src)
           IN IF first.exc # None
              THEN {[exc |-> first.exc, leases |-> <<>>,
                     opened |-> <<Head(uris)>>, answers |-> <<src>>]}
              ELSE {[exc |-> rest.exc,
                     leases |-> first.leases \o rest.leases,
                     opened |-> <<Head(uris)>> \o rest.opened,
                     answers |-> <<src>> \o rest.answers] :
                        rest \in ChainLeases(Tail(uris), uri_answers)}
           : src \in uri_answers}

\* mutant: no @functools.cache, the body runs at every call
_get_dhcp_leases_uncached(cache, uri_answers) ==
    {[exc |-> r.exc, leases |-> r.leases,
      cache |-> IF r.exc = None THEN [set |-> TRUE, leases |-> r.leases] ELSE cache,
      opened |-> r.opened, answers |-> r.answers] :
        r \in ChainLeases(LIBVIRT_CONNECTION_URIS, uri_answers)}

\* @functools.cache: the body runs when nothing is cached; a raised
\* exception is not cached
_get_dhcp_leases(cache, uri_answers) ==
    IF cache.set
    THEN {[exc |-> None, leases |-> cache.leases, cache |-> cache,
           opened |-> <<>>, answers |-> <<>>]}
    ELSE {[exc |-> r.exc, leases |-> r.leases,
           cache |-> IF r.exc = None THEN [set |-> TRUE, leases |-> r.leases] ELSE cache,
           opened |-> r.opened, answers |-> r.answers] :
            r \in ChainLeases(LIBVIRT_CONNECTION_URIS, uri_answers)}

\* mutant: only the first MAC address is looked for
_get_domain_ip_address_leases_first_mac(mac_addresses, dhcp_leases) ==
    LET haystack == IF mac_addresses = <<>> THEN {} ELSE {mac_addresses[1]}
        hits == SelectSeq(dhcp_leases, LAMBDA lease_info : lease_info.mac \in haystack)
    IN [i \in 1..Len(hits) |-> hits[i].ip_address]

\* mutant: the addresses are collected MAC by MAC, not lease by lease
_get_domain_ip_address_leases_mac_order(mac_addresses, dhcp_leases) ==
    Concat([j \in 1..Len(mac_addresses) |->
              LET hits == SelectSeq(dhcp_leases,
                                    LAMBDA lease_info : lease_info.mac = mac_addresses[j])
              IN [i \in 1..Len(hits) |-> hits[i].ip_address]])

_get_domain_ip_address_leases(mac_addresses, dhcp_leases) ==
    LET haystack == {mac_addresses[i] : i \in 1..Len(mac_addresses)}
        hits == SelectSeq(dhcp_leases, LAMBDA lease_info : lease_info.mac \in haystack)
    IN [i \in 1..Len(hits) |-> hits[i].ip_address]

(***************************************************************************)
(* GuestIntrospectionResolver: libvirt.py lines 64-119.                    *)
(***************************************************************************)
\* {k.removeprefix("if."): v for k, v in guest_info.items() if k.startswith("if.")}
IfData(guest_info) ==
    LET kept == SelectSeq(guest_info, LAMBDA kv : Len(kv[1]) >= 2 /\ kv[1][1] = "if")
    IN [i \in 1..Len(kept) |-> <<Tail(kept[i][1]), kept[i][2]>>]

\* key.partition(".")[0] of every key of if_data
IfIds(if_data) == {if_data[i][1][1] : i \in 1..Len(if_data)}

\* mutant: the interface named "lo" is not skipped
InterfaceAddresses_keep_lo(if_data, if_id) ==
    LET interface_data ==
            SelectSeq(if_data, LAMBDA kv : Len(kv[1]) >= 2 /\ kv[1][1] = if_id)
        addr_items ==
            SelectSeq(interface_data, LAMBDA kv : Len(kv[1]) >= 2 /\ Last(kv[1]) = "addr")
    IN [i \in 1..Len(addr_items) |->
            <<addr_items[i][2],
              DictGet(interface_data, Append(Front(addr_items[i][1]), "type"), None)>>]

\* the (value, ip_type) pairs one interface adds to `addresses` (lines 73-82)
InterfaceAddresses(if_data, if_id) ==
    LET if_name == DictGet(if_data, <<if_id, "name">>, None)
        interface_data ==
            SelectSeq(if_data, LAMBDA kv : Len(kv[1]) >= 2 /\ kv[1][1] = if_id)
        addr_items ==
            SelectSeq(interface_data, LAMBDA kv : Len(kv[1]) >= 2 /\ Last(kv[1]) = "addr")
    IN IF if_name = "lo" THEN <<>>
       ELSE [i \in 1..Len(addr_items) |->
                <<addr_items[i][2],
                  DictGet(interface_data, Append(Front(addr_items[i][1]), "type"), None)>>]

\* list.sort(key=itemgetter(1)) compares every element of a list of two or
\* more with another one; None < str and None < None raise TypeError
SortRaises(addresses) ==
    Len(addresses) >= 2 /\ \E i \in 1..Len(addresses) : addresses[i][2] = None

\* insertion of x after the elements that are not greater (the sort is stable)
RECURSIVE InsertSorted(_, _)
InsertSorted(sorted, x) ==
    IF sorted = <<>> THEN <<x>>
    ELSE IF StrLT(x[2], Head(sorted)[2]) THEN <<x>> \o sorted
    ELSE <<Head(sorted)>> \o InsertSorted(Tail(sorted), x)

RECURSIVE SortByType(_)
SortByType(addresses) ==
    IF addresses = <<>> THEN <<>>
    ELSE InsertSorted(SortByType(Front(addresses)), Last(addresses))

\* the result when the set if_ids is iterated in the order `order`
GuestinfoAddress(if_data, order) ==
    LET addresses == Concat([i \in 1..Len(order) |-> InterfaceAddresses(if_data, order[i])])
    IN IF SortRaises(addresses) THEN [exc |-> "TypeError", value |-> None]
       ELSE IF addresses = <<>> THEN [exc |-> None, value |-> None]
       ELSE [exc |-> None, value |-> SortByType(addresses)[1][1]]

\* every outcome the call can have: the iteration order of the set if_ids
\* is not fixed by the language
_get_domain_ip_address_guestinfo(guest_info) ==
    LET if_data == IfData(guest_info)
    IN {GuestinfoAddress(if_data, order) : order \in Orders(IfIds(if_data))}

GuestAgentPrefix == <<"org.qemu.guest_agent">>

\* mutant: a target without a state attribute counts as connected
_domain_has_guest_agent_fail_open(domain_tree) ==
    \E i \in 1..Len(domain_tree.channels) :
        LET channel == domain_tree.channels[i]
        IN /\ channel.target
           /\ StartsWith(IF channel.name = <<Absent>> THEN <<>> ELSE channel.name,
                         GuestAgentPrefix)
           /\ AttrGet(channel.state, "connected") = "connected"

\* a channel is [target, name, state]; name is a sequence of pieces of text,
\* so that startswith is the prefix test on sequences
_domain_has_guest_agent(domain_tree) ==
    \E i \in 1..Len(domain_tree.channels) :
        LET channel == domain_tree.channels[i]
        IN /\ channel.target
           /\ StartsWith(IF channel.name = <<Absent>> THEN <<>> ELSE channel.name,
                         GuestAgentPrefix)
           /\ AttrGet(channel.state, "disconnected") = "connected"

\* mutant: the libvirtError of domain.guestInfo() is not caught
_try_get_domain_guest_data_no_except(domain_tree, guest) ==
    IF ~_domain_has_guest_agent(domain_tree) THEN {[exc |-> None, data |-> EmptyDict]}
    ELSE IF ~guest.ok THEN {[exc |-> "libvirtError", data |-> EmptyDict]}
    ELSE {IF r.exc # None THEN [exc |-> r.exc, data |-> EmptyDict]
          ELSE [exc |-> None,
                data |-> [ip_address |-> r.value,
                          os_id |-> DictGet(guest.info, <<"os", "id">>, None),
                          os_version_id |-> DictGet(guest.info, <<"os", "version-id">>, None)]]
          : r \in _get_domain_ip_address_guestinfo(guest.info)}

\* guest = [ok, info]: whether domain.guestInfo() returns, and its reply
_try_get_domain_guest_data(domain_tree, guest) ==
    IF ~_domain_has_guest_agent(domain_tree) THEN {[exc |-> None, data |-> EmptyDict]}
    ELSE IF ~guest.ok THEN {[exc |-> None, data |-> EmptyDict]}
    ELSE {IF r.exc # None THEN [exc |-> r.exc, data |-> EmptyDict]
          ELSE [exc |-> None,
                data |-> [ip_address |-> r.value,
                          os_id |-> DictGet(guest.info, <<"os", "id">>, None),
                          os_version_id |-> DictGet(guest.info, <<"os", "version-id">>, None)]]
          : r \in _get_domain_ip_address_guestinfo(guest.info)}

(***************************************************************************)
(* AddressResolutionPipeline: libvirt.py lines 122-209.                    *)
(* A parsed domain XML is tree = [channels, macs, os]: the channel         *)
(* elements, the address attribute of every interface/mac element, and     *)
(* the libosinfo:os element [elem, kind, path] (kind of its id attribute:  *)
(* "absent", "empty" or "uri", and the URI's path).                        *)
(***************************************************************************)
RECURSIVE DropLeadingEmpty(_)
DropLeadingEmpty(segs) ==
    IF segs # <<>> /\ Head(segs) = "" THEN DropLeadingEmpty(Tail(segs)) ELSE segs

RECURSIVE DropTrailingEmpty(_)
DropTrailingEmpty(segs) ==
    IF segs # <<>> /\ Last(segs) = "" THEN DropTrailingEmpty(Front(segs)) ELSE segs

\* path.strip("/"), on the "/"-separated segments; <<>> is the empty string
StripSlashes(segs) == DropTrailingEmpty(DropLeadingEmpty(segs))

RECURSIVE Join(_, _)
Join(segs, sep) ==
    IF segs = <<>> THEN ""
    ELSE IF Len(segs) = 1 THEN segs[1]
    ELSE segs[1] \o sep \o Join(Tail(segs), sep)

_get_domain_xml_os_ids(domain_tree) ==
    LET os_elem == domain_tree.os
        stripped == StripSlashes(os_elem.path)
    IN IF ~os_elem.elem THEN <<"", "">>
       ELSE IF os_elem.kind # "uri" THEN <<"", "">>
       ELSE IF stripped = <<>> THEN <<"", "">>
       ELSE <<Head(stripped), Join(Tail(stripped), "/")>>

_get_domain_mac_addresses(domain_tree) ==
    SelectSeq(domain_tree.macs, LAMBDA address : address # Absent /\ address # "")

\* mutant: the last matching address is taken as the resolved one
FallbackFrom_last_match(fetched, domain_tree) ==
    LET ids == _get_domain_xml_os_ids(domain_tree)
        mac_addresses == _get_domain_mac_addresses(domain_tree)
        ip_addresses == _get_domain_ip_address_leases(mac_addresses, fetched.leases)
        keys == (IF ids[1] # "" THEN {"os_id"} ELSE {})
                \cup (IF ids[2] # "" THEN {"os_version_id"} ELSE {})
                \cup (IF ip_addresses # <<>> THEN {"ip_address"} ELSE {})
    IN IF fetched.exc # None
       THEN [exc |-> fetched.exc, data |-> EmptyDict, cache |-> fetched.cache,
             opened |-> fetched.opened, answers |-> fetched.answers, queries |-> 1]
       ELSE [exc |-> None,
             data |-> [k \in keys |-> CASE k = "os_id" -> ids[1]
                                        [] k = "os_version_id" -> ids[2]
                                        [] OTHER -> ip_addresses[Len(ip_addresses)]],
             cache |-> fetched.cache, opened |-> fetched.opened,
             answers |-> fetched.answers, queries |-> 1]

\* lines 166-181, after _get_dhcp_leases returned `fetched`
FallbackFrom(fetched, domain_tree) ==
    LET ids == _get_domain_xml_os_ids(domain_tree)
        mac_addresses == _get_domain_mac_addresses(domain_tree)
        ip_addresses == _get_domain_ip_address_leases(mac_addresses, fetched.leases)
        keys == (IF ids[1] # "" THEN {"os_id"} ELSE {})
                \cup (IF ids[2] # "" THEN {"os_version_id"} ELSE {})
                \cup (IF ip_addresses # <<>> THEN {"ip_address"} ELSE {})
    IN IF fetched.exc # None
       THEN [exc |-> fetched.exc, data |-> EmptyDict, cache |-> fetched.cache,
             opened |-> fetched.opened, answers |-> fetched.answers, queries |-> 1]
       ELSE [exc |-> None,
             data |-> [k \in keys |-> CASE k = "os_id" -> ids[1]
                                        [] k = "os_version_id" -> ids[2]
                                        [] OTHER -> ip_addresses[1]],
             cache |-> fetched.cache, opened |-> fetched.opened,
             answers |-> fetched.answers, queries |-> 1]

\* lines 166-181: the path taken when there is no guest data
FallbackData(domain_tree, cache, uri_answers) ==
    {FallbackFrom(fetched, domain_tree) : fetched \in _get_dhcp_leases(cache, uri_answers)}

\* mutant: guest data without an address counts as no guest data
SupplementaryFrom_need_address(g, domain_tree, cache, uri_answers) ==
    IF g.exc # None
    THEN {[exc |-> g.exc, data |-> EmptyDict, cache |-> cache,
           opened |-> <<>>, answers |-> <<>>, queries |-> 0]}
    ELSE IF Get(g.data, "ip_address") # None
    THEN {[exc |-> None, data |-> g.data, cache |-> cache,
           opened |-> <<>>, answers |-> <<>>, queries |-> 0]}
    ELSE FallbackData(domain_tree, cache, uri_answers)

\* mutant: an address missing from the guest data is filled in from the leases
SupplementaryFrom_merge(g, domain_tree, cache, uri_answers) ==
    IF g.exc # None
    THEN {[exc |-> g.exc, data |-> EmptyDict, cache |-> cache,
           opened |-> <<>>, answers |-> <<>>, queries |-> 0]}
    ELSE IF DOMAIN g.data # {} /\ g.data.ip_address # None
    THEN {[exc |-> None, data |-> g.data, cache |-> cache,
           opened |-> <<>>, answers |-> <<>>, queries |-> 0]}
    ELSE IF DOMAIN g.data # {}
    THEN {IF f.exc # None THEN f
          ELSE [f EXCEPT !.data = [ip_address |-> Get(f.data, "ip_address"),
                                   os_id |-> g.data.os_id,
                                   os_version_id |-> g.data.os_version_id]] :
            f \in FallbackData(domain_tree, cache, uri_answers)}
    ELSE FallbackData(domain_tree, cache, uri_answers)

\* what one outcome g of _try_get_domain_guest_data leads to (lines 163-181)
SupplementaryFrom(g, domain_tree, cache, uri_answers) ==
    IF g.exc # None
    THEN {[exc |-> g.exc, data |-> EmptyDict, cache |-> cache,
           opened |-> <<>>, answers |-> <<>>, queries |-> 0]}
    ELSE IF DOMAIN g.data # {}
    THEN {[exc |-> None, data |-> g.data, cache |-> cache,
           opened |-> <<>>, answers |-> <<>>, queries |-> 0]}
    ELSE FallbackData(domain_tree, cache, uri_answers)

\* xml = [ok, tree]: whether domain.XMLDesc() returns, and the parsed document;
\* uri_answers: what a URI can answer when it is queried.
\* The result is the set of outcomes [exc, data, cache, opened, answers, queries]:
\* the exception raised or the dict returned, the cache of _get_dhcp_leases
\* afterwards, the URIs opened with their answers, and the number of calls of
\* _get_dhcp_leases.
_get_domain_supplementary_data(xml, guest, cache, uri_answers) ==
    IF ~xml.ok
    THEN {[exc |-> "libvirtError", data |-> EmptyDict, cache |-> cache,
           opened |-> <<>>, answers |-> <<>>, queries |-> 0]}
    ELSE UNION {SupplementaryFrom(g, xml.tree, cache, uri_answers) :
                    g \in _try_get_domain_guest_data(xml.tree, guest)}

(***************************************************************************)
(* What libvirt can answer: the inputs of the pipeline.                    *)
(***************************************************************************)
Mac1 == "52:54:00:00:00:01"
Mac2 == "52:54:00:00:00:02"

LoopbackAddresses == {"127.0.0.1", "::1"}

AgentChannel(state) ==
    [target |-> TRUE, name |-> <<"org.qemu.guest_agent", ".0">>, state |-> state]

ChannelLists == {<<>>, <<AgentChannel("disconnected")>>, <<AgentChannel("connected")>>}

MacLists == {<<Mac1>>, <<Mac1, Mac2>>}

\* no libosinfo element, or <libosinfo:os id="http://redhat.com/rhel/10.0"/>
OsElems ==
    {[elem |-> FALSE, kind |-> "absent", path |-> <<"">>],
     [elem |-> TRUE, kind |-> "uri", path |-> <<"", "rhel", "10.0">>]}

\* the interfaces a guest agent reports: name and (address, family) pairs
Lo == [name |-> "lo", addrs |-> <<<<"127.0.0.1", "ipv4">>, <<"::1", "ipv6">>>>]
Eth0 == [name |-> "eth0", addrs |-> <<<<"fe80::1", "ipv6">>, <<"192.168.122.225", "ipv4">>>>]
WinLo ==
    [name |-> "Loopback Pseudo-Interface 1",
     addrs |-> <<<<"::1", "ipv6">>, <<"127.0.0.1", "ipv4">>>>]

InterfaceLists == {<<Lo>>, <<Lo, Eth0>>, <<WinLo>>}

\* the typed parameters of virDomainGetGuestInfo for one address; a family
\* of None stands for an entry without a "type" key
GuestAddrItems(n, m, a) ==
    (IF a[2] = None THEN <<>>
     ELSE <<<<<<"if", ToString(n), "addr", ToString(m), "type">>, a[2]>>>>)
    \o <<<<<<"if", ToString(n), "addr", ToString(m), "addr">>, a[1]>>,
         <<<<"if", ToString(n), "addr", ToString(m), "prefix">>, "24">>>>

\* ... for one interface; a name of Absent stands for an interface without
\* a "name" key
GuestIfItems(n, if) ==
    (IF if.name = Absent THEN <<>> ELSE <<<<<<"if", ToString(n), "name">>, if.name>>>>)
    \o <<<<<<"if", ToString(n), "hwaddr">>, Mac1>>,
      <<<<"if", ToString(n), "addr", "count">>, ToString(Len(if.addrs))>>>>
    \o Concat([m \in 1..Len(if.addrs) |-> GuestAddrItems(n, m - 1, if.addrs[m])])

\* the reply of domain.guestInfo()
GuestInfo(ifs, with_os) ==
    (IF with_os
     THEN <<<<<<"os", "id">>, "fedora">>, <<<<"os", "version-id">>, "42">>>>
     ELSE <<>>)
    \o <<<<<<"if", "count">>, ToString(Len(ifs))>>>>
    \o Concat([n \in 1..Len(ifs) |-> GuestIfItems(n - 1, ifs[n])])

GuestFail == [ok |-> FALSE, info |-> <<>>]

GuestAnswers ==
    {GuestFail}
    \cup {[ok |-> TRUE, info |-> GuestInfo(ifs, TRUE)] : ifs \in InterfaceLists}
    \cup {[ok |-> TRUE, info |-> GuestInfo(<<>>, FALSE)]}

XmlFail == [ok |-> FALSE, tree |-> [channels |-> <<>>, macs |-> <<>>, os |-> [elem |-> FALSE, kind |-> "absent", path |-> <<"">>]]]

XmlDocs ==
    {[ok |-> TRUE, tree |-> [channels |-> ch, macs |-> macs, os |-> os]] :
        ch \in ChannelLists, macs \in MacLists, os \in OsElems}

\* what XMLDesc() and guestInfo() of one domain answer; libvirt refuses
\* guestInfo() when the agent channel is not connected
DomainAnswers ==
    {a \in [xml : XmlDocs \cup {XmlFail}, guest : GuestAnswers] :
        a.guest.ok => (a.xml.ok /\ a.xml.tree.channels = <<AgentChannel("connected")>>)}

LeaseDicts ==
    {[mac |-> Mac1, ipaddr |-> "192.168.122.122"],
     [mac |-> Mac2, ipaddr |-> "192.168.122.123"]}

LeaseLists == UNION {[1..n -> LeaseDicts] : n \in 0..MaxLeases}

UriAnswers ==
    {[open |-> FALSE, enum |-> TRUE, leases |-> <<>>],
     [open |-> TRUE, enum |-> FALSE, leases |-> <<>>]}
    \cup {[open |-> TRUE, enum |-> TRUE, leases |-> l] : l \in LeaseLists}

\* the i-th domain of the host and its statistics record; a record may lack
\* the "state.state" key
HostStates == <<1, 5, 3, 7>>

HostDomain(i) ==
    [name |-> "vm-" \o ToString(i),
     stats |-> IF i % 2 = 0 THEN EmptyDict
               ELSE [k \in {"state.state"} |-> HostStates[(((i - 1) \div 2) % Len(HostStates)) + 1]]]

Listings == {[i \in 1..n |-> HostDomain(i)] : n \in 0..MaxDomains}

NoAnswer == [xml |-> XmlFail, guest |-> GuestFail]

(***************************************************************************)
(* get_domains_info (libvirt.py lines 192-209) as a state machine.         *)
(***************************************************************************)
MatchIdle ==
    /\ known_osinfo = <<>>
    /\ virt_inspector_data = <<>>
    /\ file_name = <<>>
    /\ matching_os = <<>>

CallIdle ==
    /\ fn = ""
    /\ args = <<>>
    /\ ret = <<>>

CliIdle ==
    /\ procs = <<>>
    /\ host = <<>>
    /\ cmds = <<>>

Init ==
    /\ pc = "start"
    /\ listing = <<>>
    /\ idx = 1
    /\ domains = <<>>
    /\ cur = NoAnswer
    /\ leaseCache = [set |-> FALSE, leases |-> <<>>]
    /\ leaseSources = <<>>
    /\ opened = <<>>
    /\ leaseQueries = 0
    /\ err = None
    /\ MatchIdle
    /\ CallIdle
    /\ CliIdle

\* line 196: conn.getAllDomainStats()
GetAllDomainStats ==
    /\ pc = "start"
    /\ listing' \in Listings
    /\ pc' = "loop"
    /\ UNCHANGED <<idx, domains, cur, leaseCache, leaseSources, opened, leaseQueries, err>>
    /\ UNCHANGED matchVars
    /\ UNCHANGED callVars
    /\ UNCHANGED cliVars

\* lines 196-208: one iteration of the for loop
ResolveDomain ==
    /\ pc = "loop"
    /\ idx <= Len(listing)
    /\ \E answer \in DomainAnswers :
       \E r \in _get_domain_supplementary_data(answer.xml, answer.guest, leaseCache, UriAnswers) :
          /\ cur' = answer
          /\ leaseCache' = r.cache
          /\ opened' = opened \o r.opened
          /\ leaseQueries' = leaseQueries + r.queries
          /\ leaseSources' = leaseSources \o r.answers
          /\ IF r.exc # None
             THEN /\ pc' = "error"
                  /\ err' = r.exc
                  /\ UNCHANGED <<idx, domains>>
             ELSE /\ domains' =
                        Append(domains,
                               DomainInfo(listing[idx].name,
                                          DomainStateEnum(GetOr(listing[idx].stats, "state.state", 0)),
                                          Get(r.data, "ip_address"),
                                          Get(r.data, "os_id"),
                                          Get(r.data, "os_version_id")))
                  /\ idx' = idx + 1
                  /\ UNCHANGED <<pc, err>>
    /\ UNCHANGED listing
    /\ UNCHANGED matchVars
    /\ UNCHANGED callVars
    /\ UNCHANGED cliVars

\* line 209: return domains
ReturnDomains ==
    /\ pc = "loop"
    /\ idx > Len(listing)
    /\ pc' = "done"
    /\ UNCHANGED <<listing, idx, domains, cur, leaseCache, leaseSources, opened, leaseQueries, err>>
    /\ UNCHANGED matchVars
    /\ UNCHANGED callVars
    /\ UNCHANGED cliVars

Next == GetAllDomainStats \/ ResolveDomain \/ ReturnDomains

Spec == Init /\ [][Next]_vars

(***************************************************************************)
(* Properties of the address resolution pipeline (checked under Spec).     *)
(***************************************************************************)
\* a DomainInfo was appended by the last iteration, from the answers in cur
Resolved == pc # "error" /\ domains # <<>>

LastInfo == domains[Len(domains)]

\* this step is an iteration of the loop of get_domains_info
IterationStep == pc = "loop" /\ (idx' = idx + 1 \/ pc' = "error")

ChannelConnected(tree) ==
    \E i \in 1..Len(tree.channels) :
        /\ tree.channels[i].target
        /\ tree.channels[i].name # <<Absent>>
        /\ StartsWith(tree.channels[i].name, <<"org.qemu.guest_agent">>)
        /\ tree.channels[i].state = "connected"

\* the channel is connected and guestInfo() succeeded
AgentReached(a) == a.xml.ok /\ ChannelConnected(a.xml.tree) /\ a.guest.ok

\* the values of the "if.N.addr.M.addr" entries of a reply
ReplyAddresses(info) ==
    {info[i][2] : i \in {j \in 1..Len(info) :
        Len(info[j][1]) = 5 /\ info[j][1][1] = "if" /\ info[j][1][3] = "addr"
        /\ info[j][1][5] = "addr"}}

\* ... of the interfaces that are not named "lo"
NonLoAddresses(info) ==
    {info[i][2] : i \in {j \in 1..Len(info) :
        Len(info[j][1]) = 5 /\ info[j][1][1] = "if" /\ info[j][1][3] = "addr"
        /\ info[j][1][5] = "addr"
        /\ DictGet(info, <<"if", info[j][1][2], "name">>, None) # "lo"}}

DeclaredMacs(tree) == {tree.macs[i] : i \in 1..Len(tree.macs)} \ {Absent, ""}

MatchingLeases(tree, leases) == {i \in 1..Len(leases) : leases[i].mac \in DeclaredMacs(tree)}

\* the address of the first lease whose MAC the domain declares, or None
FirstMatch(tree, leases) ==
    IF MatchingLeases(tree, leases) = {} THEN None
    ELSE leases[CHOOSE i \in MatchingLeases(tree, leases) :
                    \A j \in MatchingLeases(tree, leases) : i <= j].ip_address

\* the OS identifiers of the static metadata, None when there are none
StaticOsIds(tree) ==
    IF tree.os.elem /\ tree.os.kind = "uri" /\ Len(tree.os.path) = 3
    THEN <<tree.os.path[2], tree.os.path[3]>>
    ELSE <<None, None>>

\* C1: no DomainInfo produced by get_domains_info carries a loopback address
\* (127.0.0.0/8 or ::1) as ip_address, whatever the guest agent replies.
C1_NoLoopbackAddress ==
    \A i \in 1..Len(domains) : domains[i].ip_address \notin LoopbackAddresses

\* C2: an iteration for a domain whose agent channel is connected and whose
\* guestInfo() succeeds calls _get_dhcp_leases not at all: no lease query, no
\* connection opened, the lease cache untouched.
C2_AgentShortCircuitsLeases ==
    [][(IterationStep /\ AgentReached(cur'))
        => (leaseQueries' = leaseQueries /\ opened' = opened
            /\ leaseCache' = leaseCache /\ leaseSources' = leaseSources)]_vars

\* a domain resolved from an agent reply that has no usable address, with
\* MAC addresses declared that leases could have matched
C2_Witness ==
    /\ Resolved
    /\ AgentReached(cur)
    /\ LastInfo.ip_address = None
    /\ DeclaredMacs(cur.xml.tree) # {}
    /\ leaseQueries = 0

\* C3: the three fields of a snapshot come from one source family: from the
\* agent reply when the agent was reached (address among the reply's
\* addresses, OS identifiers the reply's os.id / os.version-id), otherwise
\* OS identifiers from the static metadata and the address from the leases.
C3_OneSourceFamily ==
    Resolved =>
        IF AgentReached(cur)
        THEN /\ LastInfo.ip_address \in ReplyAddresses(cur.guest.info) \cup {None}
             /\ LastInfo.os_id = DictGet(cur.guest.info, <<"os", "id">>, None)
             /\ LastInfo.os_version_id = DictGet(cur.guest.info, <<"os", "version-id">>, None)
        ELSE /\ leaseCache.set
             /\ LastInfo.ip_address
                  \in {leaseCache.leases[i].ip_address : i \in 1..Len(leaseCache.leases)}
                      \cup {None}
             /\ LastInfo.os_id = StaticOsIds(cur.xml.tree)[1]
             /\ LastInfo.os_version_id = StaticOsIds(cur.xml.tree)[2]

\* an agent-resolved domain without address although a cached lease matches
\* one of its MAC addresses and its XML carries OS metadata
C3_Witness ==
    /\ Resolved
    /\ AgentReached(cur)
    /\ LastInfo.ip_address = None
    /\ LastInfo.os_id = "fedora"
    /\ StaticOsIds(cur.xml.tree)[1] = "rhel"
    /\ leaseCache.set
    /\ MatchingLeases(cur.xml.tree, leaseCache.leases) # {}

\* C4 (as claimed): whenever the agent reports an address on an interface
\* that is not the loopback interface, or the lease snapshot holds a lease
\* for one of the domain's MAC addresses, ip_address is present.
C4_AnySignalResolves ==
    Resolved =>
        (((cur.guest.ok /\ NonLoAddresses(cur.guest.info) # {})
          \/ (leaseCache.set /\ MatchingLeases(cur.xml.tree, leaseCache.leases) # {}))
         => LastInfo.ip_address # None)

\* C4 (amended): ip_address is present whenever the source that is used has a
\* signal: the agent was reached and reports an address on an interface not
\* named "lo", or the agent was not reached and the lease snapshot holds a
\* lease for one of the domain's MAC addresses.
C4_SignalOfUsedSourceResolves ==
    Resolved =>
        (((AgentReached(cur) /\ NonLoAddresses(cur.guest.info) # {})
          \/ (~AgentReached(cur) /\ leaseCache.set
              /\ MatchingLeases(cur.xml.tree, leaseCache.leases) # {}))
         => LastInfo.ip_address # None)

\* a domain resolved from a lease of its second MAC address
C4_Witness ==
    /\ Resolved
    /\ ~AgentReached(cur)
    /\ \E i \in MatchingLeases(cur.xml.tree, leaseCache.leases) :
            leaseCache.leases[i].mac = Mac2
    /\ LastInfo.ip_address = "192.168.122.123"

IsPrefix(s, t) == Len(s) <= Len(t) /\ SubSeq(t, 1, Len(s)) = s

\* C7: the lease snapshot is built at most once: the URIs are opened in the
\* order of LIBVIRT_CONNECTION_URIS, each at most once, all of them before
\* the snapshot is cached, and once the snapshot is cached no step changes
\* it or opens a connection.
C7_LeaseSnapshotBuiltOnce ==
    [][/\ IsPrefix(opened', LIBVIRT_CONNECTION_URIS)
       /\ leaseCache'.set => opened' = LIBVIRT_CONNECTION_URIS
       /\ leaseCache.set => (leaseCache' = leaseCache /\ opened' = opened)]_vars

\* two calls of _get_dhcp_leases, the snapshot not empty
C7_Witness ==
    /\ leaseQueries >= 2
    /\ leaseCache.set
    /\ leaseCache.leases # <<>>
    /\ Len(domains) >= 2

\* the leases a URI contributes: none when it could not be opened
Contribution(src) ==
    IF src.open
    THEN [i \in 1..Len(src.leases) |->
            [mac |-> src.leases[i].mac, ip_address |-> src.leases[i].ipaddr]]
    ELSE <<>>

\* C8: a URI that cannot be opened contributes nothing and does not abort
\* the fetch: the fetch is aborted only by an opened URI whose enumeration
\* raises, and the cached snapshot is the concatenation, in URI order, of
\* the leases of the URIs that opened.
C8_OpenFailureContributesNothing ==
    /\ leaseCache.set =>
         /\ Len(leaseSources) = Len(LIBVIRT_CONNECTION_URIS)
         /\ leaseCache.leases =
                Concat([i \in 1..Len(leaseSources) |-> Contribution(leaseSources[i])])
    /\ (leaseSources # <<>> /\ ~leaseCache.set) =>
         /\ leaseSources[Len(leaseSources)].open
         /\ ~leaseSources[Len(leaseSources)].enum

\* the first URI could not be opened, the second one delivered a lease
C8_Witness ==
    /\ leaseCache.set
    /\ ~leaseSources[1].open
    /\ leaseSources[2].open
    /\ leaseCache.leases # <<>>
    /\ Resolved
    /\ LastInfo.ip_address # None

WithoutChannels(xml) == [xml EXCEPT !.tree.channels = <<>>]

\* C9: when the channel is connected and guestInfo() fails, the iteration
\* ends as the iteration of the same domain without channel can end (same
\* exception or same data, same use of the leases), and when it appends a
\* DomainInfo its OS identifiers are those of the static metadata and its
\* address is that of the first matching lease.
C9_AgentFailureFallsBack ==
    [][(IterationStep /\ cur'.xml.ok /\ ChannelConnected(cur'.xml.tree) /\ ~cur'.guest.ok)
        => /\ \E r \in _get_domain_supplementary_data(
                          WithoutChannels(cur'.xml), GuestFail, leaseCache, UriAnswers) :
                /\ r.exc = err'
                /\ r.cache = leaseCache'
                /\ opened' = opened \o r.opened
                /\ leaseSources' = leaseSources \o r.answers
                /\ r.exc = None =>
                     /\ domains'[Len(domains')].ip_address = Get(r.data, "ip_address")
                     /\ domains'[Len(domains')].os_id = Get(r.data, "os_id")
                     /\ domains'[Len(domains')].os_version_id = Get(r.data, "os_version_id")
           /\ err' = None =>
                /\ Len(domains') = Len(domains) + 1
                /\ domains'[Len(domains')].os_id = StaticOsIds(cur'.xml.tree)[1]
                /\ domains'[Len(domains')].os_version_id = StaticOsIds(cur'.xml.tree)[2]
                /\ domains'[Len(domains')].ip_address
                     = FirstMatch(cur'.xml.tree, leaseCache'.leases)
           /\ err' # None => (leaseSources' # <<>> /\ ~leaseCache'.set
                              /\ ~leaseSources'[Len(leaseSources')].enum)]_vars

\* guestInfo() failed on a connected channel and the domain got the address
\* of a lease and the OS of its metadata
C9_Witness ==
    /\ Resolved
    /\ ChannelConnected(cur.xml.tree)
    /\ ~cur.guest.ok
    /\ LastInfo.ip_address = "192.168.122.122"
    /\ LastInfo.os_id = "rhel"

EightStates ==
    {"NOSTATE", "RUNNING", "BLOCKED", "PAUSED", "SHUTDOWN", "SHUTOFF", "CRASHED",
     "PMSUSPENDED"}

\* C10: get_domains_info ends with exactly one DomainInfo for every listed
\* domain, in order, with the domain's name and one of the eight states,
\* whatever the agent, the static configuration or the lease sources do.
C10_EveryDomainListed ==
    pc \in {"done", "error"} =>
        /\ err = None
        /\ Len(domains) = Len(listing)
        /\ \A i \in 1..Len(domains) :
              /\ domains[i].name = listing[i].name
              /\ domains[i].state \in EightStates

\* C12: in the fallback path the address of a VM is the address of the first
\* lease of the snapshot whose MAC the VM's static description declares, and
\* it is absent when no lease matches; later matching leases do not count.
C12_FirstMatchingLeaseResolves ==
    (Resolved /\ ~AgentReached(cur)) =>
        LastInfo.ip_address = FirstMatch(cur.xml.tree, leaseCache.leases)

\* two leases of the snapshot match, and the first one is not that of the
\* first declared MAC
C12_Witness ==
    /\ Resolved
    /\ ~AgentReached(cur)
    /\ cur.xml.ok
    /\ cur.xml.tree.macs = <<Mac1, Mac2>>
    /\ Len(leaseCache.leases) = 2
    /\ leaseCache.leases[1].mac = Mac2
    /\ leaseCache.leases[2].mac = Mac1
    /\ LastInfo.ip_address = "192.168.122.123"

(***************************************************************************)
(* OsTemplateMatcher: os.py lines 117-154.                                 *)
(* The strings of _match_osinfo are sequences of characters, so that       *)
(* slicing, replace and lower act on them as in the code. A field of       *)
(* VirtInspectorData that is None is NoneS; virt_inspector_data = None is  *)
(* the record NoInspection.                                                *)
(***************************************************************************)
MaxKnown == 2

NoneS == <<"<None>">>
Pending == <<"<pending>">>

\* truth value of `x` for x a str or None
Truthy(x) == x # NoneS /\ x # <<>>

\* f"{x}" for x a str or None
Format(x) == IF x = NoneS THEN <<"N", "o", "n", "e">> ELSE x

UpperCase == <<"A", "B", "C", "D", "E", "F", "G", "H", "I", "J", "K", "L", "M", "N", "O", "P", "Q", "R", "S", "T", "U", "V", "W", "X", "Y", "Z">>
LowerCase == <<"a", "b", "c", "d", "e", "f", "g", "h", "i", "j", "k", "l", "m", "n", "o", "p", "q", "r", "s", "t", "u", "v", "w", "x", "y", "z">>

\* the lower-case letter of every upper-case letter
LowerOf ==
    [c \in {UpperCase[j] : j \in 1..Len(UpperCase)} |->
        LowerCase[CHOOSE j \in 1..Len(UpperCase) : UpperCase[j] = c]]

\* str.lower()
Lower(str) ==
    [i \in 1..Len(str) |-> IF str[i] \in DOMAIN LowerOf THEN LowerOf[str[i]] ELSE str[i]]

\* str.replace("-", "")
RemoveDashes(str) == SelectSeq(str, LAMBDA c : c # "-")

\* x in known_osinfo
InList(x, list) == \E i \in 1..Len(list) : list[i] = x

S_unknown == <<"u", "n", "k", "n", "o", "w", "n">>
S_dash_unknown == <<"-", "u", "n", "k", "n", "o", "w", "n">>
S_linux == <<"l", "i", "n", "u", "x">>
S_linux2024 == <<"l", "i", "n", "u", "x", "2", "0", "2", "4">>

\* mutant: the "-unknown" id of the distro is tried first
DistroCandidates_unknown_first(data) ==
    <<data.distro \o S_dash_unknown,
      data.distro \o Format(data.major_version) \o <<".">> \o Format(data.minor_version),
      data.distro \o Format(data.major_version),
      data.distro \o Format(data.major_version) \o S_dash_unknown,
      data.distro>>

\* lines 126-132
DistroCandidates(data) ==
    <<data.distro \o Format(data.major_version) \o <<".">> \o Format(data.minor_version),
      data.distro \o Format(data.major_version),
      data.distro \o Format(data.major_version) \o S_dash_unknown,
      data.distro,
      data.distro \o S_dash_unknown>>

\* lines 138-144
FileCandidates(name) ==
    <<name,
      name \o S_dash_unknown,
      RemoveDashes(name),
      RemoveDashes(name) \o S_dash_unknown>>

\* `for candidate in candidates: if candidate in known_osinfo: return candidate`;
\* NoneS when the loop ends without return
FirstKnown(candidates, known) ==
    IF \E i \in 1..Len(candidates) : InList(candidates[i], known)
    THEN candidates[CHOOSE i \in 1..Len(candidates) :
                        /\ InList(candidates[i], known)
                        /\ \A j \in 1..(i - 1) : ~InList(candidates[j], known)]
    ELSE NoneS

\* mutant: the candidate is returned as it is in the file name, not lower-cased
RECURSIVE FileSearch_return_raw(_, _)
FileSearch_return_raw(known, name) ==
    IF name = <<>> THEN NoneS
    ELSE LET raw == FileCandidates(name)
             hits == {i \in 1..4 : InList(Lower(raw[i]), known)}
         IN IF hits # {} THEN raw[CHOOSE i \in hits : \A j \in hits : i <= j]
            ELSE FileSearch_return_raw(known, Front(name))

\* mutant: the prefixes are searched from the shortest one upwards
FileSearch_shortest_first(known, name) ==
    LET lowered(n) == [i \in 1..4 |-> Lower(FileCandidates(SubSeq(name, 1, n))[i])]
        hits == {n \in 1..Len(name) : FirstKnown(lowered(n), known) # NoneS}
    IN IF hits = {} THEN NoneS
       ELSE FirstKnown(lowered(CHOOSE n \in hits : \A m \in hits : n <= m), known)

\* lines 137-149: the while loop; NoneS when it ends without return
RECURSIVE FileSearch(_, _)
FileSearch(known, name) ==
    IF name = <<>> THEN NoneS
    ELSE LET lowered == [i \in 1..4 |-> Lower(FileCandidates(name)[i])]
             hit == FirstKnown(lowered, known)
         IN IF hit # NoneS THEN hit ELSE FileSearch(known, Front(name))

\* mutant: the distro-derived candidates are tried before the osinfo id
InspectionSearch_distro_first(known, data) ==
    IF data.none THEN NoneS
    ELSE IF Truthy(data.distro) /\ FirstKnown(DistroCandidates(data), known) # NoneS
    THEN FirstKnown(DistroCandidates(data), known)
    ELSE IF Truthy(data.osinfo) /\ InList(data.osinfo, known) THEN data.osinfo
    ELSE NoneS

\* lines 120-135: the inspection steps; NoneS when they return nothing
InspectionSearch(known, data) ==
    IF data.none THEN NoneS
    ELSE IF Truthy(data.osinfo) /\ InList(data.osinfo, known) THEN data.osinfo
    ELSE IF Truthy(data.distro) THEN FirstKnown(DistroCandidates(data), known)
    ELSE NoneS

\* lines 151-154
Sentinel(data) ==
    IF ~data.none /\ data.name = S_linux THEN S_linux2024 ELSE S_unknown

\* mutant: the file name is searched before the distro-derived candidates
_match_osinfo_file_first(known, data, name) ==
    LET inspected == InspectionSearch(known, data)
        guessed == FileSearch(known, name)
    IN IF ~data.none /\ Truthy(data.osinfo) /\ InList(data.osinfo, known) THEN data.osinfo
       ELSE IF guessed # NoneS THEN guessed
       ELSE IF inspected # NoneS THEN inspected
       ELSE Sentinel(data)

\* mutant: what is left of the file name is returned when nothing matched
_match_osinfo_return_rest(known, data, name) ==
    LET inspected == InspectionSearch(known, data)
        guessed == FileSearch(known, name)
    IN IF inspected # NoneS THEN inspected
       ELSE IF guessed # NoneS THEN guessed
       ELSE IF ~data.none /\ data.name = S_linux THEN S_linux2024
       ELSE <<>>

\* mutant: "linux2024" is returned before the file name is searched
_match_osinfo_linux_first(known, data, name) ==
    LET inspected == InspectionSearch(known, data)
        guessed == FileSearch(known, name)
    IN IF inspected # NoneS THEN inspected
       ELSE IF ~data.none /\ data.name = S_linux THEN S_linux2024
       ELSE IF guessed # NoneS THEN guessed
       ELSE S_unknown

_match_osinfo(known, data, name) ==
    LET inspected == InspectionSearch(known, data)
        guessed == FileSearch(known, name)
    IN IF inspected # NoneS THEN inspected
       ELSE IF guessed # NoneS THEN guessed
       ELSE Sentinel(data)

(***************************************************************************)
(* The inputs of _match_osinfo.                                            *)
(***************************************************************************)
S_fedora == <<"f", "e", "d", "o", "r", "a">>
S_fedora41 == <<"f", "e", "d", "o", "r", "a", "4", "1">>
S_fedora_unknown == <<"f", "e", "d", "o", "r", "a", "-", "u", "n", "k", "n", "o", "w", "n">>
S_ubuntu24 == <<"u", "b", "u", "n", "t", "u", "2", "4">>

S_fedoraNone == <<"f", "e", "d", "o", "r", "a", "N", "o", "n", "e">>
S_Fedora41 == <<"F", "e", "d", "o", "r", "a", "4", "1">>

KnownIds == {S_fedora41, S_fedora_unknown, S_ubuntu24, S_fedoraNone, S_Fedora41, <<>>}

KnownLists == UNION {[1..n -> KnownIds] : n \in 0..MaxKnown}

NoInspection ==
    [none |-> TRUE, osinfo |-> NoneS, distro |-> NoneS, major_version |-> NoneS,
     minor_version |-> NoneS, name |-> NoneS]

Inspections ==
    {NoInspection}
    \cup [none : {FALSE},
          osinfo : {NoneS, S_fedora41},
          distro : {NoneS, S_fedora},
          major_version : {NoneS, <<"4", "1">>},
          minor_version : {NoneS, <<"0">>},
          name : {NoneS, S_linux}]

FILE_UBUNTU_24 == <<"u", "b", "u", "n", "t", "u", "-", "2", "4", ".", "q", "c", "o", "w", "2">>
FILE_FEDORA_41 == <<"f", "e", "d", "o", "r", "a", "-", "4", "1", ".", "q", "c", "o", "w", "2">>
FILE_FEDORA_LATEST == <<"F", "e", "d", "o", "r", "a", "-", "l", "a", "t", "e", "s", "t", ".", "i", "m", "g">>

FileNames == {<<>>, <<"-">>, FILE_UBUNTU_24, FILE_FEDORA_41, FILE_FEDORA_LATEST}

PipelineIdle ==
    /\ pc = "idle"
    /\ listing = <<>>
    /\ idx = 1
    /\ domains = <<>>
    /\ cur = NoAnswer
    /\ leaseCache = [set |-> FALSE, leases |-> <<>>]
    /\ leaseSources = <<>>
    /\ opened = <<>>
    /\ leaseQueries = 0
    /\ err = None

InitMatch ==
    /\ PipelineIdle
    /\ known_osinfo \in KnownLists
    /\ virt_inspector_data \in Inspections
    /\ file_name \in FileNames
    /\ matching_os = Pending
    /\ CallIdle
    /\ CliIdle

\* line 163: matching_os = _match_osinfo(known_osinfo, virt_inspector_data, file_name)
MatchOsinfo ==
    /\ matching_os = Pending
    /\ matching_os' = _match_osinfo(known_osinfo, virt_inspector_data, file_name)
    /\ UNCHANGED <<known_osinfo, virt_inspector_data, file_name>>
    /\ UNCHANGED pipelineVars
    /\ UNCHANGED callVars
    /\ UNCHANGED cliVars

NextMatch == MatchOsinfo

SpecMatch == InitMatch /\ [][NextMatch]_vars

(***************************************************************************)
(* Properties of _match_osinfo (checked under SpecMatch).                  *)
(***************************************************************************)
Matched == matching_os # Pending

\* C5 (as claimed): _match_osinfo returns a string of at least one character
\* for every catalog (the empty one and one holding the empty string
\* included), every inspection record or none, and every file name.
C5_MatchReturnsNonEmpty ==
    Matched => (matching_os # NoneS /\ Len(matching_os) >= 1)

\* C5 (amended): for every catalog that holds no empty string (the empty
\* catalog included), every inspection record or none, and every file name
\* (the empty one and one made of dashes included), _match_osinfo returns a
\* string of at least one character.
C5_NonEmptyForCatalogOfIds ==
    (Matched /\ ~InList(<<>>, known_osinfo)) =>
        (matching_os # NoneS /\ Len(matching_os) >= 1)

\* a catalog of ids, no inspection record, a file name made of a dash:
\* nothing matches and the result is "unknown"
C5_Witness ==
    /\ Matched
    /\ known_osinfo # <<>>
    /\ ~InList(<<>>, known_osinfo)
    /\ virt_inspector_data = NoInspection
    /\ file_name = <<"-">>
    /\ matching_os = S_unknown

HasDistro == ~virt_inspector_data.none /\ Truthy(virt_inspector_data.distro)

\* the osinfo id of the record or one of its five distro-derived candidates
\* is in the catalog
InspectionUsable ==
    LET d == virt_inspector_data.distro
        major == Format(virt_inspector_data.major_version)
        minor == Format(virt_inspector_data.minor_version)
    IN \/ /\ Truthy(virt_inspector_data.osinfo)
          /\ InList(virt_inspector_data.osinfo, known_osinfo)
       \/ \E c \in {d \o major \o <<".">> \o minor, d \o major,
                    d \o major \o S_dash_unknown, d, d \o S_dash_unknown} :
            InList(c, known_osinfo)

AgreesWithInspection ==
    \/ matching_os = virt_inspector_data.osinfo
    \/ StartsWith(matching_os, virt_inspector_data.distro)

\* C6 (as claimed): when the record carries a distro, the result is the
\* record's osinfo id, an identifier beginning with that distro, or one of
\* the sentinels "linux2024" and "unknown".
C6_NeverConflictsWithDistro ==
    (Matched /\ HasDistro) =>
        (AgreesWithInspection \/ matching_os \in {S_linux2024, S_unknown})

\* C6 (amended): when the record carries a distro and its osinfo id or one
\* of its distro-derived candidates is in the catalog, the result is that
\* osinfo id or an identifier of the catalog beginning with the distro,
\* whatever the file name is.
C6_UsableInspectionWins ==
    (Matched /\ HasDistro /\ InspectionUsable) =>
        (AgreesWithInspection /\ InList(matching_os, known_osinfo))

\* the distro is fedora, the catalog knows fedora-unknown and ubuntu24, the
\* file is named after ubuntu: the result is fedora-unknown
C6_Witness ==
    /\ Matched
    /\ HasDistro
    /\ InList(S_ubuntu24, known_osinfo)
    /\ file_name = <<"u", "b", "u", "n", "t", "u", "-", "2", "4", ".", "q", "c", "o", "w", "2">>
    /\ ~InList(virt_inspector_data.osinfo, known_osinfo)
    /\ matching_os = S_fedora_unknown

\* step 1 hits: the record has an osinfo id and the catalog holds it
OsinfoHit ==
    /\ ~virt_inspector_data.none
    /\ Truthy(virt_inspector_data.osinfo)
    /\ InList(virt_inspector_data.osinfo, known_osinfo)

\* C16: when the record's osinfo id is present and a member of known_osinfo,
\* _match_osinfo returns it, whatever the distro and version fields and the
\* file name are.
C16_KnownOsinfoReturned ==
    (Matched /\ OsinfoHit) => matching_os = virt_inspector_data.osinfo

\* the osinfo id is in the catalog, and so are a distro-derived candidate
\* and an id derived from the file name
C16_Witness ==
    /\ Matched
    /\ OsinfoHit
    /\ virt_inspector_data.distro = S_fedora
    /\ virt_inspector_data.major_version = NoneS
    /\ InList(S_fedora_unknown, known_osinfo)
    /\ file_name = FILE_FEDORA_LATEST
    /\ matching_os = S_fedora41

\* the first member of the catalog among the candidates, NoneS when none is
FirstMember(candidates) ==
    IF InList(candidates[1], known_osinfo) THEN candidates[1]
    ELSE IF InList(candidates[2], known_osinfo) THEN candidates[2]
    ELSE IF InList(candidates[3], known_osinfo) THEN candidates[3]
    ELSE IF InList(candidates[4], known_osinfo) THEN candidates[4]
    ELSE IF Len(candidates) >= 5 /\ InList(candidates[5], known_osinfo) THEN candidates[5]
    ELSE NoneS

\* distro+major+"."+minor, distro+major, distro+major+"-unknown", distro,
\* distro+"-unknown"
FiveCandidates(d, major, minor) ==
    <<d \o major \o <<".">> \o minor, d \o major, d \o major \o S_dash_unknown,
      d, d \o S_dash_unknown>>

\* C17: when step 1 does not hit and the record has distro, major and minor
\* version, _match_osinfo returns the first member of known_osinfo among the
\* five distro-derived candidates in their order, before any identifier
\* derived from the file name.
C17_FirstDistroCandidate ==
    LET data == virt_inspector_data
        first == FirstMember(FiveCandidates(data.distro, data.major_version,
                                            data.minor_version))
    IN (/\ Matched
        /\ ~data.none
        /\ ~OsinfoHit
        /\ Truthy(data.distro) /\ Truthy(data.major_version) /\ Truthy(data.minor_version)
        /\ first # NoneS)
            => matching_os = first

\* fedora 41.0: the catalog holds the second and the fifth candidate, and
\* the file name leads to the fifth
C17_Witness ==
    /\ Matched
    /\ ~virt_inspector_data.none
    /\ ~OsinfoHit
    /\ virt_inspector_data.distro = S_fedora
    /\ virt_inspector_data.major_version = <<"4", "1">>
    /\ virt_inspector_data.minor_version = <<"0">>
    /\ InList(S_fedora_unknown, known_osinfo)
    /\ InList(S_fedora41, known_osinfo)
    /\ file_name = FILE_FEDORA_LATEST
    /\ matching_os = S_fedora41

\* a version segment, left out when the version is absent
Segment(version) == IF version = NoneS THEN <<>> ELSE version

\* C18 (as claimed): when the record has a distro and its major or minor
\* version is absent, the candidates are built with the absent segments left
\* out, and the first candidate that is a member of known_osinfo is returned.
C18_AbsentVersionOmitted ==
    LET data == virt_inspector_data
        first == FirstMember(FiveCandidates(data.distro, Segment(data.major_version),
                                            Segment(data.minor_version)))
    IN (/\ Matched
        /\ ~data.none
        /\ ~OsinfoHit
        /\ Truthy(data.distro)
        /\ (data.major_version = NoneS \/ data.minor_version = NoneS)
        /\ first # NoneS)
            => matching_os = first

\* the four candidates of the prefix of length n of the file name, lower-cased
PrefixCandidates(n) ==
    LET name == SubSeq(file_name, 1, n)
        without == SelectSeq(name, LAMBDA c : c # "-")
    IN <<Lower(name), Lower(name \o S_dash_unknown),
         Lower(without), Lower(without \o S_dash_unknown)>>

\* the lengths of the prefixes of the file name with a candidate in the catalog
HitLengths == {n \in 1..Len(file_name) : FirstMember(PrefixCandidates(n)) # NoneS}

\* C19: when no inspection step hits, _match_osinfo searches the prefixes of
\* the file name from the full name downwards, tests at each length name,
\* name+"-unknown", name without dashes, name without dashes+"-unknown" in
\* this order, and returns the first hit: the longest prefix with a hit wins.
C19_LongestPrefixWins ==
    (Matched /\ ~InspectionUsable /\ HitLengths # {}) =>
        matching_os =
            FirstMember(PrefixCandidates(CHOOSE n \in HitLengths : \A m \in HitLengths : m <= n))

\* "fedora-41.qcow2": the prefix "fedora-41" gives fedora41 although the
\* shorter prefix "fedora" gives fedora-unknown
C19_Witness ==
    /\ Matched
    /\ virt_inspector_data = NoInspection
    /\ file_name = FILE_FEDORA_41
    /\ InList(S_fedora_unknown, known_osinfo)
    /\ InList(S_fedora41, known_osinfo)
    /\ Cardinality(HitLengths) >= 2
    /\ matching_os = S_fedora41

\* C20 (as claimed): the file-name search compares case-insensitively: when a
\* file-name candidate and a catalog identifier are equal ignoring letter
\* case, whichever of them has upper-case letters, the search hits.
C20_CaseInsensitiveBothWays ==
    (/\ Matched
     /\ ~InspectionUsable
     /\ \E n \in 1..Len(file_name), c \in 1..4, k \in 1..Len(known_osinfo) :
            PrefixCandidates(n)[c] = Lower(known_osinfo[k]))
        => \E k \in 1..Len(known_osinfo) : Lower(matching_os) = Lower(known_osinfo[k])

\* steps 1 to 3 found no member of the catalog
StepsExhausted == ~InspectionUsable /\ HitLengths = {}

\* C21: when no candidate of steps 1 to 3 is a member of known_osinfo,
\* _match_osinfo returns "linux2024" if there is an inspection record whose
\* name is "linux", and "unknown" otherwise; a sentinel that is not itself in
\* the catalog is returned only when the three steps are exhausted.
C21_SentinelsAfterAllSteps ==
    Matched =>
        /\ StepsExhausted =>
                matching_os = (IF ~virt_inspector_data.none /\ virt_inspector_data.name = S_linux
                               THEN S_linux2024 ELSE S_unknown)
        /\ (matching_os \in {S_linux2024, S_unknown} /\ ~InList(matching_os, known_osinfo))
                => StepsExhausted

\* a linux guest of distro fedora, a catalog that knows only other systems
C21_Witness ==
    /\ Matched
    /\ ~virt_inspector_data.none
    /\ virt_inspector_data.name = S_linux
    /\ virt_inspector_data.distro = S_fedora
    /\ known_osinfo = <<S_ubuntu24>>
    /\ file_name = FILE_FEDORA_41
    /\ StepsExhausted
    /\ matching_os = S_linux2024

\* C29: the value returned by _match_osinfo is an element of known_osinfo or
\* one of the sentinels "linux2024" and "unknown".
C29_ResultInCatalogOrSentinel ==
    Matched => (InList(matching_os, known_osinfo) \/ matching_os \in {S_linux2024, S_unknown})

\* the file name has an upper-case letter and an osinfo id that the catalog
\* does not hold: the result is the id of the catalog
C29_Witness ==
    /\ Matched
    /\ ~virt_inspector_data.none
    /\ virt_inspector_data.osinfo = S_fedora41
    /\ ~InList(S_fedora41, known_osinfo)
    /\ virt_inspector_data.distro = NoneS
    /\ file_name = FILE_FEDORA_LATEST
    /\ matching_os = S_fedora_unknown

(***************************************************************************)
(* The functions of libvirt.py called on their own: fn is applied to args  *)
(* and ret holds what it returned.                                         *)
(***************************************************************************)
LeasesFn == "_get_domain_ip_address_leases"

Mac3 == "52:54:00:00:00:03"

\* the entries a lease snapshot can hold
LeaseInfos ==
    {DhcpLeaseInfo(d) : d \in LeaseDicts}
    \cup {DhcpLeaseInfo([mac |-> Mac3, ipaddr |-> "192.168.122.124"])}

MacArgLists == UNION {[1..n -> {Mac1, Mac2}] : n \in 0..2}

\* a snapshot is the chain of the leases of every URI
LeaseArgLists ==
    UNION {[1..n -> LeaseInfos] : n \in 0..(MaxLeases * Len(LIBVIRT_CONNECTION_URIS))}

LeasesArgs == [mac_addresses : MacArgLists, dhcp_leases : LeaseArgLists]

GuestinfoFn == "_get_domain_ip_address_guestinfo"

MaxInterfaces == 2

Eth1 == [name |-> "eth1", addrs |-> <<<<"10.0.0.5", "ipv4">>, <<"fe80::2", "ipv6">>>>]

\* an address entry without a "type" entry
Eth2 == [name |-> "eth2", addrs |-> <<<<"10.0.0.9", None>>>>]

LoUntyped == [name |-> "lo", addrs |-> <<<<"127.0.0.1", None>>, <<"::1", None>>>>]

\* an interface without a "name" entry
Unnamed == [name |-> Absent, addrs |-> <<<<"10.0.0.7", "ipv4">>>>]

Interfaces == {Lo, LoUntyped, Eth0, Eth1, Eth2, WinLo, Unnamed}

GuestInfos ==
    {<<<<<<"noif">>, "key">>>>}
    \cup {GuestInfo(ifs, TRUE) :
            ifs \in UNION {[1..n -> Interfaces] : n \in 0..MaxInterfaces}}

GuestinfoArgs == [guest_info : GuestInfos]

AgentFn == "_domain_has_guest_agent"

MaxChannels == 2

\* a channel without target element, or with a target whose name attribute
\* is missing, the agent's, longer than the agent's, or another one, and
\* whose state attribute is missing, "connected" or "disconnected"
Channels ==
    {[target |-> FALSE, name |-> <<Absent>>, state |-> Absent]}
    \cup [target : {TRUE},
          name : {<<Absent>>, <<"org.qemu.guest_agent">>, <<"org.qemu.guest_agent", ".0">>,
                  <<"com.redhat.spice", ".0">>},
          state : {Absent, "connected", "disconnected"}]

DomainTrees ==
    {[channels |-> ch, macs |-> <<>>, os |-> [elem |-> FALSE, kind |-> "absent", path |-> <<"">>]] :
        ch \in UNION {[1..n -> Channels] : n \in 0..MaxChannels}}

AgentArgs == [domain_tree : DomainTrees]

NotReturned == [done |-> FALSE]

Returned(value) == [done |-> TRUE, value |-> value]

InitCalls ==
    /\ PipelineIdle
    /\ MatchIdle
    /\ \/ fn = LeasesFn /\ args \in LeasesArgs
       \/ fn = GuestinfoFn /\ args \in GuestinfoArgs
       \/ fn = AgentFn /\ args \in AgentArgs
    /\ ret = NotReturned
    /\ CliIdle

\* ip_addresses = _get_domain_ip_address_leases(mac_addresses, dhcp_leases)
CallIpAddressLeases ==
    /\ fn = LeasesFn
    /\ ~ret.done
    /\ ret' = Returned(_get_domain_ip_address_leases(args.mac_addresses, args.dhcp_leases))
    /\ UNCHANGED <<fn, args>>
    /\ UNCHANGED pipelineVars
    /\ UNCHANGED matchVars
    /\ UNCHANGED cliVars

\* what _get_domain_ip_address_guestinfo(guest_info) can return or raise:
\* ret.value is the set of the outcomes [exc, value] of the call
CallIpAddressGuestinfo ==
    /\ fn = GuestinfoFn
    /\ ~ret.done
    /\ ret' = Returned(_get_domain_ip_address_guestinfo(args.guest_info))
    /\ UNCHANGED <<fn, args>>
    /\ UNCHANGED pipelineVars
    /\ UNCHANGED matchVars
    /\ UNCHANGED cliVars

\* has_guest_agent = _domain_has_guest_agent(domain_tree)
CallHasGuestAgent ==
    /\ fn = AgentFn
    /\ ~ret.done
    /\ ret' = Returned(_domain_has_guest_agent(args.domain_tree))
    /\ UNCHANGED <<fn, args>>
    /\ UNCHANGED pipelineVars
    /\ UNCHANGED matchVars
    /\ UNCHANGED cliVars

NextCalls ==
    \/ CallIpAddressLeases
    \/ CallIpAddressGuestinfo
    \/ CallHasGuestAgent

SpecCalls == InitCalls /\ [][NextCalls]_vars

(***************************************************************************)
(* Properties of the functions called on their own (checked under          *)
(* SpecCalls).                                                             *)
(***************************************************************************)
\* the positions of the leases whose mac is a member of macs
LeaseHits(macs, leases) ==
    {i \in 1..Len(leases) : \E j \in 1..Len(macs) : macs[j] = leases[i].mac}

\* the k-th smallest element of a set of integers
NthOf(S, k) == CHOOSE i \in S : Cardinality({j \in S : j <= i}) = k

\* C11: _get_domain_ip_address_leases(macs, leases) returns the addresses of
\* the leases whose mac is a member of macs, one for each such lease, in the
\* order of the lease list and with duplicates kept.
C11_AddressesOfMatchingLeases ==
    (fn = LeasesFn /\ ret.done) =>
        LET hits == LeaseHits(args.mac_addresses, args.dhcp_leases)
        IN /\ Len(ret.value) = Cardinality(hits)
           /\ \A k \in 1..Len(ret.value) :
                ret.value[k] = args.dhcp_leases[NthOf(hits, k)].ip_address

\* two leases match, in the order opposite to the order of the MAC list
C11_Witness ==
    /\ fn = LeasesFn
    /\ ret.done
    /\ args.mac_addresses = <<Mac1, Mac2>>
    /\ ret.value = <<"192.168.122.123", "192.168.122.122">>

\* the ids of the interfaces of a guest-data map: N of the keys "if.N. ..."
InterfaceIds(info) ==
    {info[i][1][2] : i \in {j \in 1..Len(info) : Len(info[j][1]) >= 3 /\ info[j][1][1] = "if"}}

InterfaceName(info, n) == DictGet(info, <<"if", n, "name">>, None)

\* the addresses of family `type` that interface n reports
AddressesOfType(info, n, type) ==
    {info[i][2] : i \in {j \in 1..Len(info) :
        /\ Len(info[j][1]) = 5
        /\ info[j][1][1] = "if" /\ info[j][1][2] = n
        /\ info[j][1][3] = "addr" /\ info[j][1][5] = "addr"
        /\ DictGet(info, <<"if", n, "addr", info[j][1][4], "type">>, None) = type}}

\* C13: for a guest-data map in which every interface is named "lo", or which
\* has no "if." key, _get_domain_ip_address_guestinfo returns None, whatever
\* the addresses of that interface are.
C13_OnlyLoopbackGivesNone ==
    (/\ fn = GuestinfoFn
     /\ ret.done
     /\ \A n \in InterfaceIds(args.guest_info) : InterfaceName(args.guest_info, n) = "lo")
        => ret.value = {[exc |-> None, value |-> None]}

\* the interfaces are named "lo" and report addresses
C13_Witness ==
    /\ fn = GuestinfoFn
    /\ ret.done
    /\ InterfaceIds(args.guest_info) # {}
    /\ \A n \in InterfaceIds(args.guest_info) : InterfaceName(args.guest_info, n) = "lo"
    /\ ReplyAddresses(args.guest_info) # {}
    /\ ret.value = {[exc |-> None, value |-> None]}

\* an interface not named "lo" reports an IPv4 and an IPv6 address
BothFamilies(info) ==
    \E n \in InterfaceIds(info) :
        /\ InterfaceName(info, n) # "lo"
        /\ AddressesOfType(info, n, "ipv4") # {}
        /\ AddressesOfType(info, n, "ipv6") # {}

\* C14 (as claimed): for a guest-data map with an IPv4 and an IPv6 entry on
\* the same interface not named "lo", _get_domain_ip_address_guestinfo
\* returns an address of type "ipv4", whatever else the map contains.
C14_Ipv4Preferred ==
    (fn = GuestinfoFn /\ ret.done /\ BothFamilies(args.guest_info)) =>
        \A r \in ret.value :
            /\ r.exc = None
            /\ \E n \in InterfaceIds(args.guest_info) :
                    r.value \in AddressesOfType(args.guest_info, n, "ipv4")

\* C15: _domain_has_guest_agent returns true if and only if a channel has a
\* target whose name begins with "org.qemu.guest_agent" and whose state
\* attribute is "connected"; a target without state attribute, a channel
\* without target and a target with another name do not count.
C15_AgentIffConnectedChannel ==
    (fn = AgentFn /\ ret.done) =>
        (ret.value <=>
            \E i \in 1..Len(args.domain_tree.channels) :
                LET channel == args.domain_tree.channels[i]
                IN /\ channel.target
                   /\ channel.name # <<Absent>>
                   /\ channel.name[1] = "org.qemu.guest_agent"
                   /\ channel.state # Absent
                   /\ channel.state = "connected")

\* the first channel is the agent's without state attribute, the second one
\* is the agent's and connected
C15_Witness ==
    /\ fn = AgentFn
    /\ ret.done
    /\ Len(args.domain_tree.channels) = 2
    /\ args.domain_tree.channels[1] =
            [target |-> TRUE, name |-> <<"org.qemu.guest_agent", ".0">>, state |-> Absent]
    /\ args.domain_tree.channels[2] =
            [target |-> TRUE, name |-> <<"org.qemu.guest_agent", ".0">>, state |-> "connected"]
    /\ ret.value = TRUE

\* C27 (as claimed): _get_domain_ip_address_guestinfo is deterministic: for a
\* given guest-data map every evaluation has the same outcome, whatever the
\* iteration order of the set of interface ids is.
C27_GuestinfoDeterministic ==
    (fn = GuestinfoFn /\ ret.done) => Cardinality(ret.value) = 1

\* C28 (as claimed): _get_domain_ip_address_guestinfo returns an address or
\* None and raises no error for every guest-data map, also when an interface
\* has no name entry or an address entry has no type entry.
C28_GuestinfoNeverRaises ==
    (fn = GuestinfoFn /\ ret.done) => \A r \in ret.value : r.exc = None

(***************************************************************************)
(* The name of a new VM (os.py): _get_vm_name_template and                 *)
(* get_new_vm_name.  A str is a sequence of one-character strings.         *)
(***************************************************************************)

\* s.index(c, start): the 0-based index of the first c at or after the
\* 0-based index start, -1 where Python raises ValueError
IndexFrom(s, c, start) ==
    LET hits == {i \in 1..Len(s) : i - 1 >= start /\ s[i] = c}
    IN IF hits = {} THEN -1
       ELSE (CHOOSE i \in hits : \A j \in hits : i <= j) - 1

\* s.rfind(c): the 0-based index of the last c, -1 when there is none
RFind(s, c) ==
    LET hits == {i \in 1..Len(s) : s[i] = c}
    IN IF hits = {} THEN -1
       ELSE (CHOOSE i \in hits : \A j \in hits : i >= j) - 1

\* s.split(sep) for a one-character separator
RECURSIVE Split(_, _)
Split(s, sep) ==
    LET i == IndexFrom(s, sep, 0)
    IN IF i = -1 THEN <<s>>
       ELSE <<SubSeq(s, 1, i)>> \o Split(SubSeq(s, i + 2, Len(s)), sep)

\* Path(s).name: the last component of the path, empty and "." components
\* are dropped by the parser
PathName(s) ==
    LET parts == SelectSeq(Split(s, "/"), LAMBDA p : p # <<>> /\ p # <<".">>)
    IN IF parts = <<>> THEN <<>> ELSE Last(parts)

\* Path(s).stem: the name without its last suffix; a leading or a trailing
\* dot starts no suffix
Stem(s) ==
    LET name == PathName(s)
        i == RFind(name, ".")
    IN IF 0 < i /\ i < Len(name) - 1 THEN SubSeq(name, 1, i) ELSE name

\* mutant: the "-" is searched from the start of the name
_get_vm_name_template_from_start(source_name, user_pattern) ==
    LET end == IndexFrom(source_name, "-", 0)
    IN IF end = -1 THEN Stem(source_name) ELSE SubSeq(source_name, 1, end)

_get_vm_name_template(source_name, user_pattern) ==
    LET end == IndexFrom(source_name, "-", Len(user_pattern))
    IN IF end = -1 THEN Stem(source_name) ELSE SubSeq(source_name, 1, end)

DigitChars == <<"0", "1", "2", "3", "4", "5", "6", "7", "8", "9">>

\* f"{num}" for num >= 0
RECURSIVE Decimal(_)
Decimal(num) ==
    IF num < 10 THEN <<DigitChars[num + 1]>>
    ELSE Decimal(num \div 10) \o <<DigitChars[(num % 10) + 1]>>

\* f"{name_template}-{num}"
NewName(name_template, num) == name_template \o <<"-">> \o Decimal(num)

\* mutant: the number is one more than the number of known VMs
CountFrom_known_plus_one(name_template, known_vms, num) ==
    NewName(name_template, Len(known_vms) + 1)

\* the loop over itertools.count(start=1), entered at num
RECURSIVE CountFrom(_, _, _)
CountFrom(name_template, known_vms, num) ==
    LET new_name == NewName(name_template, num)
    IN IF ~InList(new_name, known_vms) THEN new_name
       ELSE CountFrom(name_template, known_vms, num + 1)

get_new_vm_name(user_pattern, source_image_name, known_vms) ==
    CountFrom(_get_vm_name_template(source_image_name, user_pattern), known_vms, 1)

(***************************************************************************)
(* get_new_vm_name called on its own, by a caller that adds every new name *)
(* to known_vms before it asks for the next one.                           *)
(***************************************************************************)

NameFn == "get_new_vm_name"

\* the longest known_vms a first call is given
MaxKnownVms == 2

\* the number of names the caller asks for
MaxCreations == 2

S_fed == <<"f", "e", "d">>
S_fedora_4 == <<"f", "e", "d", "o", "r", "a", "-", "4">>
S_fedora_41 == <<"f", "e", "d", "o", "r", "a", "-", "4", "1">>
S_ubuntu24_04_qcow2 == <<"u", "b", "u", "n", "t", "u", "2", "4", ".", "0", "4", ".", "q", "c", "o", "w", "2">>

IMAGE_FEDORA == <<"f", "e", "d", "o", "r", "a", "-", "4", "1", "-", "x", "8", "6", ".", "q", "c", "o", "w", "2">>
IMAGE_UBUNTU == S_ubuntu24_04_qcow2
IMAGE_IN_DIR == <<"m", "y", "-", "d", "i", "r", "/", "u", "b", "u", "n", "t", "u", ".", "i", "m", "g">>

SourceImageNames == {IMAGE_FEDORA, IMAGE_UBUNTU, IMAGE_IN_DIR}

\* the empty pattern, patterns ending before, inside and at the end of the
\* second word of the name, and a pattern longer than a name
UserPatterns == {<<>>, S_fed, S_fedora_4, S_fedora_41, S_ubuntu24_04_qcow2}

VM_FEDORA_1 == S_fedora \o <<"-", "1">>
VM_FEDORA_3 == S_fedora \o <<"-", "3">>
VM_FEDORA_41_1 == S_fedora_41 \o <<"-", "1">>
VM_UBUNTU_1 == <<"u", "b", "u", "n", "t", "u", "2", "4", ".", "0", "4", "-", "1">>

KnownVmNames == {VM_FEDORA_1, VM_FEDORA_3, VM_FEDORA_41_1, VM_UBUNTU_1}

KnownVmLists == UNION {[1..n -> KnownVmNames] : n \in 0..MaxKnownVms}

NameArgs ==
    [user_pattern : UserPatterns, source_image_name : SourceImageNames,
     known_vms : KnownVmLists]

InitNames ==
    /\ PipelineIdle
    /\ MatchIdle
    /\ fn = NameFn
    /\ args \in NameArgs
    /\ ret = [done |-> FALSE, returned |-> <<>>]
    /\ CliIdle

CallNewVmName ==
    /\ fn = NameFn
    /\ ~ret.done
    /\ LET new_name ==
            get_new_vm_name(args.user_pattern, args.source_image_name, args.known_vms)
       IN ret' = [done |-> TRUE, value |-> new_name,
                  returned |-> Append(ret.returned, new_name)]
    /\ UNCHANGED <<fn, args>>
    /\ UNCHANGED pipelineVars
    /\ UNCHANGED matchVars
    /\ UNCHANGED cliVars

\* the caller adds the new name to known_vms and asks for another name
CreateNext ==
    /\ fn = NameFn
    /\ ret.done
    /\ Len(ret.returned) < MaxCreations
    /\ \E pattern \in UserPatterns, image \in SourceImageNames :
            args' = [user_pattern |-> pattern, source_image_name |-> image,
                     known_vms |-> Append(args.known_vms, ret.value)]
    /\ ret' = [done |-> FALSE, returned |-> ret.returned]
    /\ UNCHANGED fn
    /\ UNCHANGED pipelineVars
    /\ UNCHANGED matchVars
    /\ UNCHANGED cliVars

NextNames ==
    \/ CallNewVmName
    \/ CreateNext

SpecNames == InitNames /\ [][NextNames]_vars

(***************************************************************************)
(* Properties of get_new_vm_name (checked under SpecNames).                *)
(***************************************************************************)

\* the 1-based positions of the "-" found at or after index len(user_pattern)
DashesAfterPattern ==
    {i \in 1..Len(args.source_image_name) :
        /\ args.source_image_name[i] = "-"
        /\ i - 1 >= Len(args.user_pattern)}

\* the source image name cut at the first such "-", its stem when there is none
CutName ==
    IF DashesAfterPattern = {} THEN Stem(args.source_image_name)
    ELSE LET first == CHOOSE i \in DashesAfterPattern :
                            \A j \in DashesAfterPattern : i <= j
         IN SubSeq(args.source_image_name, 1, first - 1)

\* C30: get_new_vm_name returns "{template}-{N}", template being the source
\* image name cut at the first "-" at or after index len(user_pattern) (its
\* stem when there is none) and N the smallest integer >= 1 whose name is
\* not in known_vms; the loop ends after at most len(known_vms) + 1 rounds,
\* the result is not in known_vms, and the names returned to a caller that
\* adds each of them to known_vms are pairwise distinct.
C30_SmallestFreeNumber ==
    (fn = NameFn /\ ret.done) =>
        /\ \E N \in 1..(Len(args.known_vms) + 1) :
                /\ ret.value = CutName \o <<"-">> \o Decimal(N)
                /\ \A m \in 1..(N - 1) :
                        InList(CutName \o <<"-">> \o Decimal(m), args.known_vms)
        /\ ~InList(ret.value, args.known_vms)
        /\ \A i, j \in 1..Len(ret.returned) :
                i # j => ret.returned[i] # ret.returned[j]

\* "fedora-1" and "fedora-3" are known: the first name is "fedora-2", the
\* second one, for the same image, "fedora-4"
C30_Witness ==
    /\ fn = NameFn
    /\ ret.done
    /\ args.source_image_name = IMAGE_FEDORA
    /\ args.user_pattern = S_fed
    /\ args.known_vms = <<VM_FEDORA_1, VM_FEDORA_3, S_fedora \o <<"-", "2">>>>
    /\ ret.returned = <<S_fedora \o <<"-", "2">>, S_fedora \o <<"-", "4">>>>

(***************************************************************************)
(* The commands create and delete (cli.py).  A process is one run of       *)
(* vmmgr; the host is what libvirt reports to it and what the external     *)
(* commands change.  A str is a sequence of one-character strings, a Path  *)
(* the sequence of the components of an absolute path.                     *)
(***************************************************************************)

VMMGR_POOL_NAME == <<"v", "m", "m", "g", "r">>

S_default == <<"d", "e", "f", "a", "u", "l", "t">>
S_images == <<"i", "m", "a", "g", "e", "s">>

\* [name.strip() for name in VMMGR_TEMPLATE_IMAGES_POOLS.split(",")], for
\* VMMGR_TEMPLATE_IMAGES_POOLS=default,images
VMMGR_TEMPLATE_IMAGES_POOLS == {S_default, S_images}

\* the exit codes of an external command
ReturnCodes == {0, 1}

\* the exit status of a process: still running, returned from main,
\* sys.exit(message), sys.exit(returncode), uncaught exception
Running == [code |-> 0, why |-> "running"]
Return == [code |-> 0, why |-> "return"]
SysExitMessage(msg) == [code |-> 1, why |-> msg]
SysExitCode(returncode) == [code |-> returncode, why |-> "returncode"]
Uncaught(exception) == [code |-> 1, why |-> exception]

\* path.is_relative_to(other): other's components begin path's
IsRelativeTo(path, other) == StartsWith(path, other)

\* execute_cmd(cmd, dry_run): what becomes of the command.  mutant: the
\* command is run whatever dry_run is
execute_cmd_ignore_dry_run(cmd, dry_run) ==
    {[started |-> TRUE, returncode |-> rc] : rc \in ReturnCodes}

\* execute_cmd(cmd, dry_run): no subprocess with dry_run, otherwise
\* subprocess.run(cmd) with any exit code
execute_cmd(cmd, dry_run) ==
    IF dry_run THEN {[started |-> FALSE]}
    ELSE {[started |-> TRUE, returncode |-> rc] : rc \in ReturnCodes}

\* _get_known_os_info(dry_run): the subprocesses started and the values
\* that may be returned, known being what osinfo-query prints
_get_known_os_info(dry_run, known) ==
    IF dry_run THEN [started |-> <<>>, value |-> <<S_linux2024>>]
    ELSE [started |-> <<"osinfo-query">>, value |-> known]

\* _get_virt_inspector_data(template_image_path, dry_run): the subprocesses
\* started and the value returned, inspected being what virt-inspector finds
_get_virt_inspector_data(template_image_path, dry_run, inspected) ==
    IF dry_run THEN [started |-> <<>>, value |-> NoneS]
    ELSE [started |-> <<"virt-inspector">>, value |-> inspected]

\* get_vmmgr_pool(): the pool named VMMGR_POOL_NAME, <<>> when sys.exit is
\* called
RECURSIVE get_vmmgr_pool(_)
get_vmmgr_pool(all_pools) ==
    IF all_pools = <<>> THEN <<>>
    ELSE IF Head(all_pools).name = VMMGR_POOL_NAME THEN <<Head(all_pools)>>
    ELSE get_vmmgr_pool(Tail(all_pools))

HasDiskAmong(vm, volumes) ==
    \E d \in 1..Len(vm.disks) : InList(vm.disks[d], volumes)

\* mutant: every domain is taken for a VM of vmmgr
get_vmmgr_managed_vms_unfiltered(vmmgr_pool, vms) == vms

\* get_vmmgr_managed_vms(): the domains with a disk among the volumes of
\* the vmmgr pool
get_vmmgr_managed_vms(vmmgr_pool, vms) ==
    SelectSeq(vms, LAMBDA vm : HasDiskAmong(vm, vmmgr_pool.volumes))

\* managed_vms.get(vm_name): <<>> for None
RECURSIVE ManagedGet(_, _)
ManagedGet(managed_vms, vm_name) ==
    IF managed_vms = <<>> THEN <<>>
    ELSE IF Last(managed_vms).name = vm_name THEN <<Last(managed_vms)>>
    ELSE ManagedGet(Front(managed_vms), vm_name)

\* managed_vms.keys(), in insertion order
RECURSIVE ManagedKeys(_)
ManagedKeys(managed_vms) ==
    IF managed_vms = <<>> THEN <<>>
    ELSE LET before == ManagedKeys(Front(managed_vms))
             name == Last(managed_vms).name
         IN IF InList(name, before) THEN before ELSE Append(before, name)

\* mutant: virsh destroy is issued for every VM
NeedsDestroy_always(vm) == TRUE

\* lines 99-100: vm.state == DomainStateEnum.RUNNING
NeedsDestroy(vm) == vm.state = DomainStateEnum(1)

\* lines 102-106: the disks of the VM under the path of the vmmgr pool
StorageDisks(vm, vmmgr_pool) ==
    SelectSeq(vm.disks, LAMBDA path : IsRelativeTo(path, vmmgr_pool.path))

\* remove_cmd, lines 93-98
DestroyCmd(vm_name) ==
    [exe |-> "virsh", sub |-> "destroy", domain |-> vm_name, storage |-> <<>>]

\* undefine_cmd, lines 108-114; the list after --storage is kept as the
\* sequence of its items
UndefineCmd(vm_name, disks) ==
    [exe |-> "virsh", sub |-> "undefine", domain |-> vm_name, storage |-> disks]

\* what a command that exits with 0 does to the host: virsh destroy stops
\* the domain, virsh undefine --storage removes the domain and the listed
\* volumes
Effect(h, cmd) ==
    IF cmd.sub = "destroy"
    THEN [h EXCEPT !.domains =
            [d \in DOMAIN h.domains |->
                IF h.domains[d].name = cmd.domain
                THEN [h.domains[d] EXCEPT !.state = DomainStateEnum(5)]
                ELSE h.domains[d]]]
    ELSE [domains |-> SelectSeq(h.domains, LAMBDA vm : vm.name # cmd.domain),
          pools |-> [q \in DOMAIN h.pools |->
                        [h.pools[q] EXCEPT !.volumes =
                            SelectSeq(@, LAMBDA v : ~InList(v, cmd.storage))]]]

\* get_template_volumes(): the volumes of the pools that hold template
\* images, each with its pool, in the order of the dict
RECURSIVE get_template_volumes(_)
get_template_volumes(pools) ==
    IF pools = <<>> THEN <<>>
    ELSE LET pool == Head(pools)
             rest == get_template_volumes(Tail(pools))
         IN IF pool.name \notin VMMGR_TEMPLATE_IMAGES_POOLS THEN rest
            ELSE [v \in 1..Len(pool.volumes) |->
                    [path |-> pool.volumes[v], pool |-> pool]] \o rest

\* the keys of short_full_map, lines 21 and 25: the file names of the
\* template volumes, each once, in the order of the dict
RECURSIVE ShortNames(_)
ShortNames(template_pool_map) ==
    IF template_pool_map = <<>> THEN <<>>
    ELSE LET before == ShortNames(Front(template_pool_map))
             name == Last(Last(template_pool_map).path)
         IN IF InList(name, before) THEN before ELSE Append(before, name)

\* lines 26-30: the templates whose name starts with the pattern, all of
\* them when no pattern is given
MatchingTemplates(template_pool_map, pattern) ==
    IF Truthy(pattern)
    THEN SelectSeq(ShortNames(template_pool_map),
                   LAMBDA template : StartsWith(template, pattern))
    ELSE ShortNames(template_pool_map)

\* short_full_map.get(name): the path of the last volume with that name
RECURSIVE ShortFullGet(_, _)
ShortFullGet(template_pool_map, name) ==
    IF template_pool_map = <<>> THEN <<>>
    ELSE IF Last(Last(template_pool_map).path) = name
         THEN Last(template_pool_map).path
         ELSE ShortFullGet(Front(template_pool_map), name)

\* the parameters of get_new_vm_name (os.py, line 23)
get_new_vm_name_parameters == <<"user_pattern", "source_image_name", "known_vms">>

(***************************************************************************)
(* The hosts and the command lines.                                        *)
(***************************************************************************)

\* the processes: one vmmgr delete, or two vmmgr create at the same time
Procs == {1, 2}

\* the longest list of domains of a host
MaxVms == 2

\* the longest list of VM names given to vmmgr delete
MaxSelected == 2

S_pool == <<"p", "o", "o", "l">>
S_vmmgr_old == <<"v", "m", "m", "g", "r", "-", "o", "l", "d">>
S_dotdot == <<".", ".">>
S_zzz == <<"z", "z", "z">>

DISK_FEDORA_1 == <<"f", "e", "d", "o", "r", "a", "-", "1", ".", "q", "c", "o", "w", "2">>
DISK_FEDORA_2 == <<"f", "e", "d", "o", "r", "a", "-", "2", ".", "q", "c", "o", "w", "2">>
DISK_DATA == <<"d", "a", "t", "a", ".", "i", "m", "g">>

VM_FEDORA_2 == S_fedora \o <<"-", "2">>
VM_OTHER == <<"o", "t", "h", "e", "r">>

POOL_DEFAULT ==
    [name |-> S_default, path |-> <<S_pool, S_default>>,
     volumes |-> << <<S_pool, S_default, IMAGE_FEDORA>>,
                    <<S_pool, S_default, IMAGE_UBUNTU>> >>]

\* a second pool of template images, with an image named as one of the first
POOL_IMAGES ==
    [name |-> S_images, path |-> <<S_pool, S_images>>,
     volumes |-> << <<S_pool, S_images, IMAGE_FEDORA>> >>]

POOL_VMMGR ==
    [name |-> VMMGR_POOL_NAME, path |-> <<S_pool, VMMGR_POOL_NAME>>,
     volumes |-> << <<S_pool, VMMGR_POOL_NAME, DISK_FEDORA_1>>,
                    <<S_pool, VMMGR_POOL_NAME, DISK_FEDORA_2>> >>]

\* what get_pools_info() may return: no vmmgr pool, one pool of templates,
\* two of them with the same image, one with a single image
PoolLists ==
    {<<POOL_DEFAULT>>, <<POOL_DEFAULT, POOL_VMMGR>>,
     <<POOL_DEFAULT, POOL_IMAGES, POOL_VMMGR>>, <<POOL_VMMGR, POOL_IMAGES>>}

\* a running VM of vmmgr with its template image as second disk
DOMAIN_FEDORA_1 ==
    [name |-> VM_FEDORA_1, state |-> DomainStateEnum(1),
     disks |-> << <<S_pool, VMMGR_POOL_NAME, DISK_FEDORA_1>>,
                  <<S_pool, S_default, IMAGE_FEDORA>> >>]

\* a VM of vmmgr that is shut off, with a disk in the directory "vmmgr-old"
\* and one in the pool "default" whose path is written through the
\* directory of the vmmgr pool
DOMAIN_FEDORA_2 ==
    [name |-> VM_FEDORA_2, state |-> DomainStateEnum(5),
     disks |-> << <<S_pool, VMMGR_POOL_NAME, DISK_FEDORA_2>>,
                  <<S_pool, S_vmmgr_old, DISK_DATA>>,
                  <<S_pool, VMMGR_POOL_NAME, S_dotdot, S_default, DISK_DATA>> >>]

\* a running domain with no disk in the vmmgr pool
DOMAIN_OTHER ==
    [name |-> VM_OTHER, state |-> DomainStateEnum(1),
     disks |-> << <<S_pool, S_vmmgr_old, DISK_DATA>> >>]

HostDomains == {DOMAIN_FEDORA_1, DOMAIN_FEDORA_2, DOMAIN_OTHER}

\* what get_domains_info() may return: up to MaxVms domains, each once
DomainLists ==
    {l \in UNION {[1..n -> HostDomains] : n \in 0..MaxVms} :
        \A i, j \in DOMAIN l : i # j => l[i] # l[j]}

Hosts == [pools : PoolLists, domains : DomainLists]

VmNameLists ==
    UNION {[1..n -> {VM_FEDORA_1, VM_FEDORA_2, VM_OTHER}] : n \in 0..MaxSelected}

\* vmmgr delete [-n] [--all] [vm_name ...]
DeleteArgs ==
    {[dry_run |-> n, list |-> FALSE, pattern |-> NoneS, all |-> a, vm_name |-> names] :
        n \in BOOLEAN, a \in BOOLEAN, names \in VmNameLists}

\* vmmgr create [-n] [--list] [pattern]
CreateArgs ==
    {[dry_run |-> n, list |-> l, pattern |-> pattern, all |-> FALSE, vm_name |-> <<>>] :
        n \in BOOLEAN, l \in BOOLEAN, pattern \in {NoneS, S_fed, S_zzz}}

Process(kind, argv) ==
    [kind |-> kind, argv |-> argv, pc |-> "start", status |-> Running, i |-> 1,
     vmmgr_pool |-> <<>>, managed_vms |-> <<>>, selected_vms |-> <<>>,
     template_pool_map |-> <<>>, template_image_path |-> <<>>, new_vm_name |-> <<>>]

\* no second process
NoProcess ==
    [Process("none", [dry_run |-> FALSE, list |-> FALSE, pattern |-> NoneS,
                      all |-> FALSE, vm_name |-> <<>>])
        EXCEPT !.pc = "none"]

InitCli ==
    /\ PipelineIdle
    /\ MatchIdle
    /\ CallIdle
    /\ host \in Hosts
    /\ cmds = <<>>
    /\ \/ \E argv \in DeleteArgs : procs = <<Process("delete", argv), NoProcess>>
       \/ \E a, b \in CreateArgs : procs = <<Process("create", a), Process("create", b)>>

\* the process ends with that status
Exit(p, status) == [procs EXCEPT ![p].pc = "exit", ![p].status = status]

\* execute_cmd(cmd, args.dry_run) called by process p, which goes on as
\* after says unless the command fails
Execute(p, cmd, after) ==
    \E res \in execute_cmd(cmd, procs[p].argv.dry_run) :
        /\ cmds' = Append(cmds, [proc |-> p, cmd |-> cmd, res |-> res])
        /\ IF res.started /\ res.returncode # 0
           THEN /\ procs' = Exit(p, SysExitCode(res.returncode))
                /\ host' = host
           ELSE /\ procs' = [procs EXCEPT ![p] = after]
                /\ host' = IF res.started THEN Effect(host, cmd) ELSE host

\* the VM of this round of the loop of handle_delete, <<>> when there is none
CurrentVm(p) ==
    IF procs[p].i <= Len(procs[p].selected_vms)
    THEN ManagedGet(procs[p].managed_vms, procs[p].selected_vms[procs[p].i])
    ELSE <<>>

\* handle_delete, lines 86-90
DeleteStart ==
    \E p \in Procs :
        /\ procs[p].kind = "delete"
        /\ procs[p].pc = "start"
        /\ LET pool == get_vmmgr_pool(host.pools)
           IN IF pool = <<>>
              THEN procs' = Exit(p, SysExitMessage("libvirt pool 'vmmgr' not found"))
              ELSE \/ procs' = Exit(p, Uncaught("libvirtError"))
                   \/ LET managed_vms == get_vmmgr_managed_vms(pool[1], host.domains)
                      IN procs' = [procs EXCEPT
                            ![p].pc = "loop",
                            ![p].vmmgr_pool = pool,
                            ![p].managed_vms = managed_vms,
                            ![p].selected_vms =
                                IF procs[p].argv.all THEN ManagedKeys(managed_vms)
                                ELSE procs[p].argv.vm_name]
        /\ UNCHANGED <<host, cmds>>
        /\ UNCHANGED pipelineVars
        /\ UNCHANGED matchVars
        /\ UNCHANGED callVars

\* lines 92-95: a selected name that is no VM of vmmgr is passed over
DeleteSkip ==
    \E p \in Procs :
        /\ procs[p].pc = "loop"
        /\ procs[p].i <= Len(procs[p].selected_vms)
        /\ CurrentVm(p) = <<>>
        /\ procs' = [procs EXCEPT ![p].i = @ + 1]
        /\ UNCHANGED <<host, cmds>>
        /\ UNCHANGED pipelineVars
        /\ UNCHANGED matchVars
        /\ UNCHANGED callVars

\* lines 93-100: virsh destroy for a running VM
DeleteDestroy ==
    \E p \in Procs :
        /\ procs[p].pc = "loop"
        /\ CurrentVm(p) # <<>>
        /\ NeedsDestroy(CurrentVm(p)[1])
        /\ Execute(p, DestroyCmd(procs[p].selected_vms[procs[p].i]),
                   [procs[p] EXCEPT !.pc = "undefine"])
        /\ UNCHANGED pipelineVars
        /\ UNCHANGED matchVars
        /\ UNCHANGED callVars

\* lines 102-115: virsh undefine, after virsh destroy or for a VM that is
\* not running
DeleteUndefine ==
    \E p \in Procs :
        /\ \/ procs[p].pc = "undefine"
           \/ /\ procs[p].pc = "loop"
              /\ CurrentVm(p) # <<>>
              /\ ~NeedsDestroy(CurrentVm(p)[1])
        /\ Execute(p, UndefineCmd(procs[p].selected_vms[procs[p].i],
                                  StorageDisks(CurrentVm(p)[1], procs[p].vmmgr_pool[1])),
                   [procs[p] EXCEPT !.pc = "loop", !.i = @ + 1])
        /\ UNCHANGED pipelineVars
        /\ UNCHANGED matchVars
        /\ UNCHANGED callVars

\* the loop of handle_delete is over
DeleteReturn ==
    \E p \in Procs :
        /\ procs[p].pc = "loop"
        /\ procs[p].i > Len(procs[p].selected_vms)
        /\ procs' = Exit(p, Return)
        /\ UNCHANGED <<host, cmds>>
        /\ UNCHANGED pipelineVars
        /\ UNCHANGED matchVars
        /\ UNCHANGED callVars

\* handle_create, lines 20-47
CreateStart ==
    \E p \in Procs :
        /\ procs[p].kind = "create"
        /\ procs[p].pc = "start"
        /\ LET template_pool_map == get_template_volumes(host.pools)
               matching_templates ==
                    MatchingTemplates(template_pool_map, procs[p].argv.pattern)
               vmmgr_pool == get_vmmgr_pool(host.pools)
           IN procs' =
                IF Len(ShortNames(template_pool_map)) # Len(template_pool_map)
                THEN Exit(p, SysExitMessage("Multiple pools contain files with the same name"))
                ELSE IF procs[p].argv.list THEN Exit(p, Return)
                ELSE IF matching_templates = <<>>
                THEN Exit(p, SysExitMessage("No VM template images matching the pattern"))
                ELSE IF Len(matching_templates) > 1
                THEN Exit(p, SysExitMessage("Ambiguous pattern"))
                ELSE IF vmmgr_pool = <<>>
                THEN Exit(p, SysExitMessage("libvirt pool 'vmmgr' not found"))
                ELSE [procs EXCEPT
                        ![p].pc = "name",
                        ![p].template_pool_map = template_pool_map,
                        ![p].template_image_path =
                            ShortFullGet(template_pool_map, matching_templates[1]),
                        ![p].vmmgr_pool = vmmgr_pool]
        /\ UNCHANGED <<host, cmds>>
        /\ UNCHANGED pipelineVars
        /\ UNCHANGED matchVars
        /\ UNCHANGED callVars

\* handle_create, line 49: get_new_vm_name(template_image_path, pattern).
\* The call gives two arguments to a function of three parameters, Python
\* raises TypeError and nothing catches it: lines 50-82 (the cloud-init
\* files, qemu-img create, get_osinfo_value, virt-install) are never run.
CreateName ==
    \E p \in Procs :
        /\ procs[p].pc = "name"
        /\ LET call_args == <<procs[p].template_image_path, procs[p].argv.pattern>>
           IN procs' =
                IF Len(call_args) # Len(get_new_vm_name_parameters)
                THEN Exit(p, Uncaught("TypeError"))
                ELSE [procs EXCEPT
                        ![p].pc = "files",
                        ![p].new_vm_name =
                            get_new_vm_name(call_args[1], call_args[2], call_args[3])]
        /\ UNCHANGED <<host, cmds>>
        /\ UNCHANGED pipelineVars
        /\ UNCHANGED matchVars
        /\ UNCHANGED callVars

NextCli ==
    \/ DeleteStart
    \/ DeleteSkip
    \/ DeleteDestroy
    \/ DeleteUndefine
    \/ DeleteReturn
    \/ CreateStart
    \/ CreateName

SpecCli == InitCli /\ [][NextCli]_vars

(***************************************************************************)
(* Properties of create and delete (checked under SpecCli).                *)
(***************************************************************************)

\* the calls of execute_cmd made by process p, in order
LogOf(p) == SelectSeq(cmds, LAMBDA c : c.proc = p)

\* the command was run and exited with a code other than 0
Failed(c) == c.res.started /\ c.res.returncode # 0

\* the template images of the host
TemplatesOfHost ==
    UNION {{host.pools[q].volumes[v] : v \in DOMAIN host.pools[q].volumes} :
            q \in {r \in DOMAIN host.pools :
                        host.pools[r].name \in VMMGR_TEMPLATE_IMAGES_POOLS}}

\* the template images whose file name starts with the pattern of process p
TemplatesMatching(p) ==
    {t \in TemplatesOfHost :
        \/ procs[p].argv.pattern = NoneS
        \/ StartsWith(Last(t), procs[p].argv.pattern)}

\* process p is a create without --list and without --dry-run, on a host
\* with a vmmgr pool where no two templates have the same file name and
\* exactly one template matches the pattern
CreatesFromOneTemplate(p) ==
    /\ procs[p].kind = "create"
    /\ ~procs[p].argv.list
    /\ ~procs[p].argv.dry_run
    /\ \E q \in DOMAIN host.pools : host.pools[q].name = VMMGR_POOL_NAME
    /\ \A t, u \in TemplatesOfHost : Last(t) = Last(u) => t = u
    /\ Cardinality(TemplatesMatching(p)) = 1

\* process p has run the command exe, as its k-th call of execute_cmd
RanAt(p, exe, k) ==
    /\ k \in DOMAIN LogOf(p)
    /\ LogOf(p)[k].cmd.exe = exe
    /\ LogOf(p)[k].res.started

\* C26 (as claimed): a create without --list and without --dry-run for
\* which exactly one template matches runs qemu-img create, and runs
\* virt-install after it unless qemu-img exits with a code other than 0,
\* in which case the process exits with that code; so when the process has
\* ended, qemu-img has been run.
C26_CreateRunsQemuImg ==
    \A p \in Procs :
        (CreatesFromOneTemplate(p) /\ procs[p].pc = "exit") =>
            /\ RanAt(p, "qemu-img", 1)
            /\ IF Failed(LogOf(p)[1])
               THEN /\ Len(LogOf(p)) = 1
                    /\ procs[p].status = SysExitCode(LogOf(p)[1].res.returncode)
               ELSE RanAt(p, "virt-install", 2)

\* C22 (as claimed): two create processes that run at the same time with
\* the same pattern, that read the same templates and the same managed VM
\* names and of which no command fails, both go on to qemu-img create and
\* virt-install with the same new name; so when both have ended each has
\* run virt-install, for the same domain.
C22_BothCreateTheSameName ==
    (/\ \A p \in Procs : CreatesFromOneTemplate(p) /\ procs[p].pc = "exit"
     /\ procs[1].argv.pattern = procs[2].argv.pattern
     /\ procs[1].template_pool_map = procs[2].template_pool_map
     /\ \A k \in DOMAIN cmds : ~Failed(cmds[k])) =>
        \E j \in DOMAIN LogOf(1), k \in DOMAIN LogOf(2) :
            /\ RanAt(1, "virt-install", j)
            /\ RanAt(2, "virt-install", k)
            /\ LogOf(1)[j].cmd.domain = LogOf(2)[k].cmd.domain

\* C23: with --dry-run no external command is run.  A step of a process
\* started with --dry-run leaves the pools and the domains of the host as
\* they are, and a command it hands to execute_cmd is not started;
\* _get_known_os_info and _get_virt_inspector_data start no subprocess
\* when dry_run is true.
C23_DryRunRunsNothing ==
    [][\A p \in Procs :
            (procs[p].argv.dry_run /\ procs'[p] # procs[p]) =>
                /\ host' = host
                /\ \/ cmds' = cmds
                   \/ /\ Front(cmds') = cmds
                      /\ Last(cmds').proc = p
                      /\ ~Last(cmds').res.started
                /\ \A known \in KnownLists :
                        _get_known_os_info(procs[p].argv.dry_run, known).started = <<>>
                /\ \A inspected \in Inspections :
                        _get_virt_inspector_data(procs[p].template_image_path,
                            procs[p].argv.dry_run, inspected).started = <<>>]_vars

\* vmmgr delete -n fedora-1 has ended: virsh destroy and virsh undefine were
\* printed and not run, the VM is still there and running
C23_Witness ==
    /\ procs[1].kind = "delete"
    /\ procs[1].argv.dry_run
    /\ procs[1].argv.vm_name = <<VM_FEDORA_1>>
    /\ procs[1].status = Return
    /\ Len(cmds) = 2
    /\ cmds[1].cmd = DestroyCmd(VM_FEDORA_1)
    /\ ~cmds[1].res.started
    /\ cmds[2].cmd.sub = "undefine"
    /\ ~cmds[2].res.started
    /\ \E d \in DOMAIN host.domains : host.domains[d] = DOMAIN_FEDORA_1

\* the path with its ".." components resolved
RECURSIVE Resolved_(_)
Resolved_(path) ==
    IF path = <<>> THEN <<>>
    ELSE LET before == Resolved_(Front(path))
         IN IF Last(path) = S_dotdot
            THEN (IF before = <<>> THEN <<>> ELSE Front(before))
            ELSE Append(before, Last(path))

\* C24 (as claimed): the --storage list of every virsh undefine of
\* handle_delete holds only disks of that VM that lie under the path of
\* the vmmgr pool; a disk located elsewhere is never listed.
C24_StorageInsideVmmgrPool ==
    \A k \in DOMAIN cmds :
        cmds[k].cmd.sub = "undefine" =>
            LET me == procs[cmds[k].proc]
                vm == ManagedGet(me.managed_vms, cmds[k].cmd.domain)
            IN \A s \in DOMAIN cmds[k].cmd.storage :
                    /\ vm # <<>>
                    /\ InList(cmds[k].cmd.storage[s], vm[1].disks)
                    /\ StartsWith(Resolved_(cmds[k].cmd.storage[s]),
                                  Resolved_(me.vmmgr_pool[1].path))

\* a domain with at least one disk among the volumes of the vmmgr pool
IsManaged(vm, vmmgr_pool) ==
    \E d \in DOMAIN vm.disks, v \in DOMAIN vmmgr_pool.volumes :
        vm.disks[d] = vmmgr_pool.volumes[v]

\* the commands handle_delete is to issue for the selected names, in order
RECURSIVE CommandsFor(_, _, _)
CommandsFor(selected, vms, vmmgr_pool) ==
    IF selected = <<>> THEN <<>>
    ELSE LET found == {m \in DOMAIN vms :
                        vms[m].name = Head(selected) /\ IsManaged(vms[m], vmmgr_pool)}
             state == vms[CHOOSE m \in found : TRUE].state
             mine == IF found = {} THEN <<>>
                     ELSE IF state = "RUNNING"
                          THEN << <<"destroy", Head(selected)>>,
                                  <<"undefine", Head(selected)>> >>
                          ELSE << <<"undefine", Head(selected)>> >>
         IN mine \o CommandsFor(Tail(selected), vms, vmmgr_pool)

\* C25: handle_delete issues commands only for the selected names that are
\* VMs of vmmgr; for each of them, in the order of the selection, virsh
\* destroy if and only if the VM is RUNNING, then virsh undefine; a command
\* that exits with a code other than 0 is the last one issued, and the
\* process exits with that code.
C25_DeleteCommandsInOrder ==
    \A p \in Procs :
        (procs[p].kind = "delete" /\ procs[p].vmmgr_pool # <<>>) =>
            LET log == LogOf(p)
                expected == CommandsFor(procs[p].selected_vms, procs[p].managed_vms,
                                        procs[p].vmmgr_pool[1])
            IN /\ Len(log) <= Len(expected)
               /\ \A k \in DOMAIN log :
                    /\ log[k].cmd.exe = "virsh"
                    /\ <<log[k].cmd.sub, log[k].cmd.domain>> = expected[k]
                    /\ Failed(log[k]) =>
                            /\ k = Len(log)
                            /\ procs[p].pc = "exit"
                            /\ procs[p].status = SysExitCode(log[k].res.returncode)
               /\ procs[p].status = Return => Len(log) = Len(expected)

\* vmmgr delete other fedora-1, "other" being no VM of vmmgr and fedora-1
\* a running one: virsh destroy and virsh undefine were run for fedora-1
\* alone, and the process returned
C25_Witness ==
    /\ procs[1].kind = "delete"
    /\ ~procs[1].argv.dry_run
    /\ procs[1].argv.vm_name = <<VM_OTHER, VM_FEDORA_1>>
    /\ procs[1].status = Return
    /\ Len(cmds) = 2
    /\ cmds[1].cmd = DestroyCmd(VM_FEDORA_1)
    /\ cmds[1].res = [started |-> TRUE, returncode |-> 0]
    /\ cmds[2].cmd.sub = "undefine"
    /\ cmds[2].res = [started |-> TRUE, returncode |-> 0]
    /\ \E d \in DOMAIN host.domains : host.domains[d].name = VM_OTHER

====
